---- MODULE Spec2Model ----
(***************************************************************************)
(* Model of the league-management application: the tournament document     *)
(* handled by backend/controllers/tournamentController.js and the same     *)
(* operations as implemented over local storage by contexts/AppContext.tsx.*)
(*                                                                         *)
(* One tournament document is modelled.  `impl` selects which of the two   *)
(* implementations serves the document: "backend" (REST handlers over the  *)
(* document store) or "local" (AppContext over local storage).  A handler  *)
(* served alone is one atomic action: load, guards, mutation, save,        *)
(* response.  The specification of concurrent requests splits recordGoal   *)
(* into its load and its save; `requests` holds the requests in flight and *)
(* `version` the stored document's version key (__v).  A match             *)
(* sub-document is addressed by its position in the match list.            *)
(*                                                                         *)
(* `client` is the single-page client's own copy of the teams and of the   *)
(* tournament, kept by the provider that talks to the backend; where no    *)
(* client is attached it stays as it is.                                   *)
(*                                                                         *)
(* res is the answer to the last request (operation and status) and prior  *)
(* is the stored document as it was when that request arrived.             *)
(***************************************************************************)
EXTENDS Integers, Sequences, FiniteSets, TLC

VARIABLES impl, teams, tournament, res, prior, version, requests, client

vars == <<impl, teams, tournament, res, prior, version, requests, client>>

---------------------------------------------------------------------------
(* Bounds of the model *)

MaxMatches == 3
MaxGoals == 2
MaxCards == 1
\* Highest matchNumber the manual-fixtures specification lets a list reach.
MaxNumber == 4

---------------------------------------------------------------------------
(* Values *)

NullId == "null"
UndefId == "undefined"

Undefined == [type |-> "undefined", val |-> 0]
Num(n) == [type |-> "number", val |-> n]

Users == {"u1", "u2", "u3", "u4"}
UnknownUser == "u9"
UserInputs == Users \cup {UnknownUser}
Callers == {"u1", "u2"}

TeamOrder == <<"tA", "tB", "tC", "tD">>
TeamIds == {TeamOrder[i] : i \in 1..Len(TeamOrder)}
UnknownTeam == "tX"
TeamInputs == TeamIds \cup {UnknownTeam}

KnockoutRounds == {"Final", "Semi-Final", "Quarter-Final", "Eliminator"}

MatchStatus == {"Scheduled", "Live", "Finished"}
StatusInputs == MatchStatus \cup {"Paused"}

CardType == {"Yellow", "Red"}

\* Penalty scores a request may carry: none, one only, equal ones, a
\* negative one on either side, and a proper result either way.
PenaltyInputs ==
    {<<Undefined, Undefined>>, <<Undefined, Num(1)>>, <<Num(1), Undefined>>,
     <<Num(0), Num(0)>>, <<Num(1), Num(1)>>,
     <<Num(-1), Num(0)>>, <<Num(0), Num(-1)>>,
     <<Num(0), Num(1)>>, <<Num(1), Num(0)>>}
AssistInputs == {UndefId}

InSeq(x, s) == \E i \in 1..Len(s) : s[i] = x

---------------------------------------------------------------------------
(* Schema defaults and lookups *)

\* A match pushed onto tournament.matches with only the four supplied
\* fields: the schema fills in the defaults.
MatchSchema(matchNumber, teamAId, teamBId, round) ==
    [matchNumber |-> matchNumber, teamAId |-> teamAId, teamBId |-> teamBId,
     round |-> round, status |-> "Scheduled", scoreA |-> 0, scoreB |-> 0,
     penaltyScoreA |-> Undefined, penaltyScoreB |-> Undefined,
     goals |-> <<>>, cards |-> <<>>, winnerId |-> NullId,
     date |-> UndefId, time |-> UndefId, playerOfTheMatchId |-> UndefId]

\* The match literal AppContext builds: no winnerId, no penalty fields, no
\* date, time or playerOfTheMatchId.
AppContext_newMatch(matchNumber, teamAId, teamBId, round) ==
    [matchNumber |-> matchNumber, teamAId |-> teamAId, teamBId |-> teamBId,
     round |-> round, status |-> "Scheduled", scoreA |-> 0, scoreB |-> 0,
     penaltyScoreA |-> Undefined, penaltyScoreB |-> Undefined,
     goals |-> <<>>, cards |-> <<>>, winnerId |-> UndefId,
     date |-> UndefId, time |-> UndefId, playerOfTheMatchId |-> UndefId]

\* Team.findOne({ members: userId }) / allTeams.find(t => t.members.includes(id)):
\* the first team of the collection, in creation order, that lists the user.
RECURSIVE FindTeamFrom(_, _)
FindTeamFrom(i, userId) ==
    IF i > Len(TeamOrder) THEN UndefId
    ELSE IF InSeq(userId, teams[TeamOrder[i]].members) THEN TeamOrder[i]
    ELSE FindTeamFrom(i + 1, userId)

FindTeamByMember(userId) == FindTeamFrom(1, userId)

\* The user is a member of one of the two teams of the match.
PlaysIn(userId, match) ==
    \/ InSeq(userId, teams[match.teamAId].members)
    \/ InSeq(userId, teams[match.teamBId].members)

\* The client holds no copy of the resource.
Absent == [cached |-> FALSE]

\* No client is attached: the requests come from elsewhere.
Detached == [on |-> FALSE]

\* const [teams, setTeams] = useState<Team[]>([]);
\* const [tournaments, setTournaments] = useState<Tournament[]>([]);
\* provider "part_004": the provider whose bootstrap loads nothing
\* (fetchDataForUser is empty) and whose getters answer from the cache.
Attached_part_004 ==
    [on |-> TRUE, provider |-> "part_004",
     teams |-> [t \in TeamIds |-> Absent], tournament |-> Absent]

\* provider "App" (src/App.tsx): bootstrap runs fetchAppData.
\* setTeams(allTeams); setTournaments(allTournaments)
fetchAppData(ts, doc) ==
    [on |-> TRUE, provider |-> "App", teams |-> ts, tournament |-> doc]

\* part_004 getTeamById(id), the backend holding `team`:
\* let team = teams.find(...); if (team && !isStale) return team; otherwise
\* GET /teams/:id and put the answer in the list.  (A cached copy came from
\* a GET and has populated members, so it is never taken for stale.)
getTeamById(cache, teamId, team) ==
    IF cache.teams[teamId] # Absent THEN cache
    ELSE [cache EXCEPT !.teams[teamId] = team]

\* part_004 getTournamentById(id), the backend holding `doc`:
\* let tournament = tournaments.find(...); if (tournament) return tournament;
getTournamentById(cache, doc) ==
    IF cache.tournament # Absent THEN cache
    ELSE [cache EXCEPT !.tournament = doc]

\* setTournaments(prev => prev.map(t => t._id === id ? updated : t))
updateTournamentInState(cache, doc) ==
    IF cache.tournament = Absent THEN cache
    ELSE [cache EXCEPT !.tournament = doc]

\* What the client does with its copies once the team request `op` has
\* succeeded and the backend holds `team` (the response carries no team).
\*   part_004: addMemberToTeam, removeMemberFromTeam, toggleTeamAdmin and
\*             setTeamRole all end in getTeamById(teamId).
\*   App.tsx:  if (result.success && result.team) setTeams(...): result.team
\*             is undefined, the list stays as it is.
TeamMirrored(op, teamId, team) ==
    IF ~client.on THEN client
    ELSE IF client.provider = "part_004"
            /\ op \in {"addMember", "removeMember", "toggleAdmin", "setRole"}
         THEN getTeamById(client, teamId, team)
    ELSE client

\* What the client does with its copies once the tournament request `op`
\* has succeeded and the backend holds `doc`.
\*   part_004: scheduleMatches and addMatchManually store the response;
\*             addTeamToTournament and joinTournament call getTournamentById.
\*   App.tsx:  addTeamToTournament, scheduleMatches and addMatchManually
\*             fetch the tournament and map it in; joinTournament runs
\*             fetchAppData.
\* The requests on a single match are not issued by the attached client.
TournamentMirrored(op, doc) ==
    IF ~client.on THEN client
    ELSE IF client.provider = "part_004"
         THEN IF op \in {"scheduleMatches", "addMatchManually"}
              THEN updateTournamentInState(client, doc)
              ELSE IF op \in {"addTeamToTournament", "joinTournament"}
              THEN getTournamentById(client, doc)
              ELSE client
    ELSE IF op \in {"addTeamToTournament", "scheduleMatches", "addMatchManually"}
         THEN updateTournamentInState(client, doc)
    ELSE IF op = "joinTournament" THEN fetchAppData(teams, doc)
    ELSE client

Last(seq) == seq[Len(seq)]

RECURSIVE CountGoals(_), CountCards(_)
CountGoals(ms) == IF ms = <<>> THEN 0 ELSE Len(Head(ms).goals) + CountGoals(Tail(ms))
CountCards(ms) == IF ms = <<>> THEN 0 ELSE Len(Head(ms).cards) + CountCards(Tail(ms))

\* A handler that answers without saving: the stored document stays.
Reply(op, status) ==
    /\ res' = [op |-> op, status |-> status]
    /\ prior' = tournament
    /\ UNCHANGED <<tournament, version, requests, client>>

\* await tournament.save() followed by the success response.
Saved(doc, op) ==
    /\ res' = [op |-> op, status |-> 200]
    /\ prior' = tournament
    /\ tournament' = doc
    /\ client' = TournamentMirrored(op, doc)
    /\ UNCHANGED <<version, requests>>

---------------------------------------------------------------------------
(* Requests in flight.  A request that has loaded the document holds its   *)
(* own copy (doc, already mutated in memory), the version key it loaded    *)
(* (v) and the goal it pushed; a finished one holds the status it answered.*)

RequestIds == {1, 2}

Idle == [pc |-> "idle"]

\* No request is in flight and the document is at its first version.
NoneInFlight == version = 0 /\ requests = [r \in RequestIds |-> Idle]

---------------------------------------------------------------------------
(* Initial state: four teams exist (u1 created tA, u2 created tB, u3       *)
(* created tC and tD; u4 is in no team) and u1 has just created the        *)
(* tournament.                                                             *)

NewTeam(creator) ==
    [adminIds |-> <<creator>>, members |-> <<creator>>,
     captainId |-> UndefId, viceCaptainId |-> UndefId]

createTournament(adminId) ==
    [adminId |-> adminId, teams |-> <<>>, matches |-> <<>>, isSchedulingDone |-> FALSE]

InitTeams ==
    [t \in TeamIds |->
       IF t = "tA" THEN NewTeam("u1")
       ELSE IF t = "tB" THEN NewTeam("u2")
       ELSE NewTeam("u3")]

Init ==
    /\ impl \in {"backend", "local"}
    /\ teams = InitTeams
    /\ NoneInFlight
    /\ client = Detached
    /\ tournament = createTournament("u1")
    /\ res = [op |-> "createTournament", status |-> 201]
    /\ prior = tournament

---------------------------------------------------------------------------
(* Fixture generation *)

\* for (let j = i + 1; j < teams.length; j++) push({ matchNumber: matchNumber++, ... })
\* acc carries the list built so far and the running matchNumber counter.
RECURSIVE InnerLoop(_, _, _, _)
InnerLoop(ts, i, j, acc) ==
    IF j > Len(ts) THEN acc
    ELSE InnerLoop(ts, i, j + 1,
                   [matches |-> Append(acc.matches,
                                       [matchNumber |-> acc.matchNumber,
                                        teamAId |-> ts[i], teamBId |-> ts[j],
                                        round |-> "League Stage"]),
                    matchNumber |-> acc.matchNumber + 1])

\* for (let i = 0; i < teams.length; i++) { inner loop }
RECURSIVE OuterLoop(_, _, _)
OuterLoop(ts, i, acc) ==
    IF i > Len(ts) THEN acc
    ELSE OuterLoop(ts, i + 1, InnerLoop(ts, i, i + 1, acc))

\* The literals pushed by the double loop, in push order
\* (let matchNumber = 1 before the loops).
RoundRobin_NumberedFromZero(ts) ==
    OuterLoop(ts, 1, [matches |-> <<>>, matchNumber |-> 0]).matches

RoundRobin(ts) == OuterLoop(ts, 1, [matches |-> <<>>, matchNumber |-> 1]).matches

---------------------------------------------------------------------------
(* Backend handlers (tournamentController.js) *)

addTeamToTournament(caller, teamCodeOrId) ==
    /\ impl = "backend"
    /\ UNCHANGED <<impl, teams>>
    /\ IF tournament.adminId # caller THEN Reply("addTeamToTournament", 403)
       ELSE IF teamCodeOrId \notin TeamIds THEN Reply("addTeamToTournament", 404)
       ELSE IF InSeq(teamCodeOrId, tournament.teams) THEN Reply("addTeamToTournament", 400)
       ELSE Saved([tournament EXCEPT !.teams = Append(@, teamCodeOrId)],
                  "addTeamToTournament")

\* tournament.matches = []; double loop of pushes; isSchedulingDone = true
ScheduledDoc_KeepsPriorMatches(doc) ==
    LET pushed == RoundRobin(doc.teams)
    IN [doc EXCEPT
          !.matches = doc.matches \o
                      [k \in 1..Len(pushed) |->
                         MatchSchema(pushed[k].matchNumber, pushed[k].teamAId,
                                     pushed[k].teamBId, pushed[k].round)],
          !.isSchedulingDone = TRUE]

ScheduledDoc(doc) ==
    LET pushed == RoundRobin(doc.teams)
    IN [doc EXCEPT
          !.matches = [k \in 1..Len(pushed) |->
                         MatchSchema(pushed[k].matchNumber, pushed[k].teamAId,
                                     pushed[k].teamBId, pushed[k].round)],
          !.isSchedulingDone = TRUE]

scheduleMatches(caller) ==
    /\ impl = "backend"
    /\ UNCHANGED <<impl, teams>>
    /\ IF tournament.adminId # caller THEN Reply("scheduleMatches", 403)
       ELSE IF Len(tournament.teams) < 2 THEN Reply("scheduleMatches", 400)
       ELSE Saved(ScheduledDoc(tournament), "scheduleMatches")

\* tournament.matches.reduce((max, m) => Math.max(max, m.matchNumber), 0)
RECURSIVE MaxMatchNumber(_)
MaxMatchNumber(ms) ==
    IF ms = <<>> THEN 0
    ELSE LET rest == MaxMatchNumber(Tail(ms))
         IN IF Head(ms).matchNumber > rest THEN Head(ms).matchNumber ELSE rest

\* addMatchManually numbering the new match maxMatchNumber instead of
\* maxMatchNumber + 1.
addMatchManually_NumberedByMax(caller, teamAId, teamBId, round) ==
    /\ impl = "backend"
    /\ UNCHANGED <<impl, teams>>
    /\ Len(tournament.matches) < MaxMatches
    /\ IF tournament.adminId # caller THEN Reply("addMatchManually", 403)
       ELSE Saved([tournament EXCEPT !.matches =
                     Append(@, MatchSchema(MaxMatchNumber(tournament.matches),
                                           teamAId, teamBId, round))],
                  "addMatchManually")

addMatchManually(caller, teamAId, teamBId, round) ==
    /\ impl = "backend"
    /\ UNCHANGED <<impl, teams>>
    /\ Len(tournament.matches) < MaxMatches
    /\ IF tournament.adminId # caller THEN Reply("addMatchManually", 403)
       ELSE Saved([tournament EXCEPT !.matches =
                     Append(@, MatchSchema(MaxMatchNumber(tournament.matches) + 1,
                                           teamAId, teamBId, round))],
                  "addMatchManually")

\* if (match.scoreA > match.scoreB) winnerId = teamAId;
\* else if (match.scoreB > match.scoreA) winnerId = teamBId;
DecisiveResult_WinnerSwapped(match) ==
    IF match.scoreA > match.scoreB
    THEN [match EXCEPT !.winnerId = match.teamBId]
    ELSE [match EXCEPT !.winnerId = match.teamAId]

DecisiveResult(match) ==
    IF match.scoreA > match.scoreB
    THEN [match EXCEPT !.winnerId = match.teamAId]
    ELSE [match EXCEPT !.winnerId = match.teamBId]

\* typeof penaltyScoreA !== 'number' || typeof penaltyScoreB !== 'number'
\*   || penaltyScoreA === penaltyScoreB
PenaltiesRefused(penaltyScoreA, penaltyScoreB) ==
    \/ penaltyScoreA.type # "number"
    \/ penaltyScoreB.type # "number"
    \/ penaltyScoreA = penaltyScoreB

\* match.penaltyScoreA = ...; match.penaltyScoreB = ...;
\* match.winnerId = penaltyScoreA > penaltyScoreB ? match.teamAId : match.teamBId
PenaltyShootout_LowerWins(match, penaltyScoreA, penaltyScoreB) ==
    [match EXCEPT
       !.penaltyScoreA = penaltyScoreA,
       !.penaltyScoreB = penaltyScoreB,
       !.winnerId = IF penaltyScoreA.val < penaltyScoreB.val
                    THEN match.teamAId ELSE match.teamBId]

PenaltyShootout(match, penaltyScoreA, penaltyScoreB) ==
    [match EXCEPT
       !.penaltyScoreA = penaltyScoreA,
       !.penaltyScoreB = penaltyScoreB,
       !.winnerId = IF penaltyScoreA.val > penaltyScoreB.val
                    THEN match.teamAId ELSE match.teamBId]

\* match.winnerId = null  (league/group stage draw)
LeagueDraw_TeamAWins(match) == [match EXCEPT !.winnerId = match.teamAId]

LeagueDraw(match) == [match EXCEPT !.winnerId = NullId]

\* The body of `if (status === 'Finished') { ... }`: the in-memory match after
\* the branch, and whether the handler returned 400 inside it.
FinishOutcome(match, penaltyScoreA, penaltyScoreB) ==
    IF match.scoreA # match.scoreB
    THEN [rejected |-> FALSE, match |-> DecisiveResult(match)]
    ELSE IF match.round \in KnockoutRounds
    THEN IF PenaltiesRefused(penaltyScoreA, penaltyScoreB)
         THEN [rejected |-> TRUE, match |-> match]
         ELSE [rejected |-> FALSE,
               match |-> PenaltyShootout(match, penaltyScoreA, penaltyScoreB)]
    ELSE [rejected |-> FALSE, match |-> LeagueDraw(match)]

updateMatchStatus(caller, matchId, status, penaltyScoreA, penaltyScoreB) ==
    /\ impl = "backend"
    /\ UNCHANGED <<impl, teams>>
    /\ IF tournament.adminId # caller THEN Reply("updateMatchStatus", 403)
       ELSE IF matchId > Len(tournament.matches) THEN Reply("updateMatchStatus", 404)
       ELSE LET match == [tournament.matches[matchId] EXCEPT !.status = status]
                out == IF status = "Finished"
                       THEN FinishOutcome(match, penaltyScoreA, penaltyScoreB)
                       ELSE [rejected |-> FALSE, match |-> match]
            IN IF out.rejected THEN Reply("updateMatchStatus", 400)
               ELSE IF status \notin MatchStatus THEN Reply("updateMatchStatus", 500)
               ELSE Saved([tournament EXCEPT !.matches[matchId] = out.match],
                          "updateMatchStatus")

\* isOwnGoal ? (scorerTeam._id.equals(match.teamAId) ? match.teamBId : match.teamAId)
\*           : scorerTeam._id
BenefitingTeam(match, scorerTeamId, isOwnGoal) ==
    IF isOwnGoal
    THEN (IF scorerTeamId = match.teamAId THEN match.teamBId ELSE match.teamAId)
    ELSE scorerTeamId

\* if (benefitingTeamId.equals(match.teamAId)) match.scoreA += 1; else match.scoreB += 1;
\* match.goals.push(...)
GoalRecorded(match, scorerId, assistId, isOwnGoal, benefitingTeamId) ==
    LET scored == IF benefitingTeamId = match.teamAId
                  THEN [match EXCEPT !.scoreA = @ + 1]
                  ELSE [match EXCEPT !.scoreB = @ + 1]
    IN [scored EXCEPT !.goals =
          Append(@, [scorerId |-> scorerId, assistId |-> assistId,
                     isOwnGoal |-> isOwnGoal, teamId |-> benefitingTeamId])]

recordGoal(caller, matchId, scorerId, assistId, isOwnGoal) ==
    /\ impl = "backend"
    /\ UNCHANGED <<impl, teams>>
    /\ CountGoals(tournament.matches) < MaxGoals
    /\ IF tournament.adminId # caller THEN Reply("recordGoal", 403)
       ELSE IF matchId > Len(tournament.matches) THEN Reply("recordGoal", 404)
       ELSE IF scorerId \notin Users THEN Reply("recordGoal", 404)
       ELSE IF FindTeamByMember(scorerId) = UndefId THEN Reply("recordGoal", 400)
       ELSE LET match == tournament.matches[matchId]
                benefitingTeamId ==
                    BenefitingTeam(match, FindTeamByMember(scorerId), isOwnGoal)
            IN Saved([tournament EXCEPT !.matches[matchId] =
                        GoalRecorded(match, scorerId, assistId, isOwnGoal,
                                     benefitingTeamId)],
                     "recordGoal")

recordCard(caller, matchId, playerId, cardType) ==
    /\ impl = "backend"
    /\ UNCHANGED <<impl, teams>>
    /\ CountCards(tournament.matches) < MaxCards
    /\ IF tournament.adminId # caller THEN Reply("recordCard", 403)
       ELSE IF matchId > Len(tournament.matches) THEN Reply("recordCard", 404)
       ELSE IF FindTeamByMember(playerId) = UndefId THEN Reply("recordCard", 400)
       ELSE IF cardType \notin CardType THEN Reply("recordCard", 500)
       ELSE Saved([tournament EXCEPT !.matches[matchId].cards =
                        Append(@, [playerId |-> playerId, type |-> cardType,
                                   teamId |-> FindTeamByMember(playerId)])],
                  "recordCard")

\* recordGoal served concurrently.  Tournament.findById gives the request its
\* own copy of the document; the guards and the two mutations act on that
\* copy.  What the request keeps: the version key it loaded, the mutated
\* match, and the two modified paths save() will send (the score that was
\* assigned and the goal that was pushed).
recordGoal_load(r, caller, matchId, scorerId, assistId, isOwnGoal) ==
    /\ impl = "backend"
    /\ UNCHANGED <<impl, teams>>
    /\ requests[r].pc = "idle"
    /\ CountGoals(tournament.matches) < MaxGoals
    /\ IF tournament.adminId # caller THEN Reply("recordGoal", 403)
       ELSE IF matchId > Len(tournament.matches) THEN Reply("recordGoal", 404)
       ELSE IF scorerId \notin Users THEN Reply("recordGoal", 404)
       ELSE IF FindTeamByMember(scorerId) = UndefId THEN Reply("recordGoal", 400)
       ELSE LET match == tournament.matches[matchId]
                benefitingTeamId ==
                    BenefitingTeam(match, FindTeamByMember(scorerId), isOwnGoal)
                mutated == GoalRecorded(match, scorerId, assistId, isOwnGoal,
                                        benefitingTeamId)
            IN /\ requests' = [requests EXCEPT ![r] =
                     [pc |-> "loaded", v |-> version, matchId |-> matchId,
                      match |-> mutated,
                      path |-> IF mutated.scoreA # match.scoreA
                               THEN "scoreA" ELSE "scoreB",
                      pushed |-> Last(mutated.goals)]]
               /\ UNCHANGED <<tournament, res, prior, version, client>>

\* A save() that sends its update whatever the stored version is.
VersionMatches_Always(req) == TRUE

\* The version check of save(): the request pushed to an array inside an
\* element of tournament.matches, so the update carries the loaded version
\* key in its filter.
VersionMatches(req) == req.v = version

\* The update save() sends: $set of the assigned score, $push of the goal.
DeltaApplied(stored, req) ==
    LET scored == IF req.path = "scoreA"
                  THEN [stored EXCEPT !.scoreA = req.match.scoreA]
                  ELSE [stored EXCEPT !.scoreB = req.match.scoreB]
    IN [scored EXCEPT !.goals = Append(@, req.pushed)]

\* await tournament.save(): the update is applied and the version key
\* incremented when the stored version is the loaded one; otherwise save()
\* throws a VersionError and the catch block answers 500.
recordGoal_save(r) ==
    /\ impl = "backend"
    /\ UNCHANGED <<impl, teams>>
    /\ requests[r].pc = "loaded"
    /\ LET req == requests[r]
           status == IF VersionMatches(req) THEN 200 ELSE 500
       IN /\ res' = [op |-> "recordGoal", status |-> status]
          /\ prior' = tournament
          /\ requests' = [requests EXCEPT ![r] =
                [pc |-> "done", v |-> req.v, matchId |-> req.matchId,
                 match |-> req.match, status |-> status]]
          /\ IF status = 200
             THEN /\ tournament' = [tournament EXCEPT !.matches[req.matchId] =
                                       DeltaApplied(@, req)]
                  /\ version' = version + 1
             ELSE UNCHANGED <<tournament, version>>
          /\ UNCHANGED client

\* The response has been sent; the request is over.
recordGoal_end(r) ==
    /\ requests[r].pc = "done"
    /\ requests' = [requests EXCEPT ![r] = Idle]
    /\ UNCHANGED <<impl, teams, tournament, res, prior, version, client>>

\* if (teamAId) match.teamAId = teamAId; if (teamBId) match.teamBId = teamBId;
\* if (date !== undefined) match.date = date; if (time !== undefined) match.time = time;
DetailsUpdated(match, teamAId, teamBId, date, time) ==
    [match EXCEPT
       !.teamAId = IF teamAId # UndefId THEN teamAId ELSE @,
       !.teamBId = IF teamBId # UndefId THEN teamBId ELSE @,
       !.date = IF date # UndefId THEN date ELSE @,
       !.time = IF time # UndefId THEN time ELSE @]

\* updateMatchDetails without the adminId check.
updateMatchDetails_Unguarded(caller, matchId, teamAId, teamBId, date, time) ==
    /\ impl = "backend"
    /\ UNCHANGED <<impl, teams>>
    /\ IF matchId > Len(tournament.matches) THEN Reply("updateMatchDetails", 404)
       ELSE Saved([tournament EXCEPT !.matches[matchId] =
                     DetailsUpdated(@, teamAId, teamBId, date, time)],
                  "updateMatchDetails")

updateMatchDetails(caller, matchId, teamAId, teamBId, date, time) ==
    /\ impl = "backend"
    /\ UNCHANGED <<impl, teams>>
    /\ IF tournament.adminId # caller THEN Reply("updateMatchDetails", 403)
       ELSE IF matchId > Len(tournament.matches) THEN Reply("updateMatchDetails", 404)
       ELSE Saved([tournament EXCEPT !.matches[matchId] =
                     DetailsUpdated(@, teamAId, teamBId, date, time)],
                  "updateMatchDetails")

setPlayerOfTheMatch(caller, matchId, playerId) ==
    /\ impl = "backend"
    /\ UNCHANGED <<impl, teams>>
    /\ IF tournament.adminId # caller THEN Reply("setPlayerOfTheMatch", 403)
       ELSE IF matchId > Len(tournament.matches) THEN Reply("setPlayerOfTheMatch", 404)
       ELSE Saved([tournament EXCEPT !.matches[matchId].playerOfTheMatchId = playerId],
                  "setPlayerOfTheMatch")

---------------------------------------------------------------------------
(* The same operations over local storage (contexts/AppContext.tsx).  They *)
(* take no caller and answer no HTTP status: res.status is 200 when the    *)
(* operation ran to its end and 400 when it returned early.                *)

AppContext_addTeamToTournament(teamCodeOrId) ==
    /\ impl = "local"
    /\ UNCHANGED <<impl, teams>>
    /\ IF teamCodeOrId \notin TeamIds THEN Reply("addTeamToTournament", 400)
       ELSE IF InSeq(teamCodeOrId, tournament.teams) THEN Reply("addTeamToTournament", 400)
       ELSE Saved([tournament EXCEPT !.teams = Append(@, teamCodeOrId)],
                  "addTeamToTournament")

\* newMatches built by the double loop; { ...tournament, matches: newMatches,
\* isSchedulingDone: true }
AppContext_ScheduledDoc(doc) ==
    LET pushed == RoundRobin(doc.teams)
    IN [doc EXCEPT
          !.matches = [k \in 1..Len(pushed) |->
                         AppContext_newMatch(pushed[k].matchNumber, pushed[k].teamAId,
                                             pushed[k].teamBId, pushed[k].round)],
          !.isSchedulingDone = TRUE]

AppContext_scheduleMatches ==
    /\ impl = "local"
    /\ UNCHANGED <<impl, teams>>
    /\ Saved(AppContext_ScheduledDoc(tournament), "scheduleMatches")

AppContext_addMatchManually(teamAId, teamBId, round) ==
    /\ impl = "local"
    /\ UNCHANGED <<impl, teams>>
    /\ Len(tournament.matches) < MaxMatches
    /\ Saved([tournament EXCEPT !.matches =
                Append(@, AppContext_newMatch(Len(tournament.matches) + 1,
                                              teamAId, teamBId, round))],
             "addMatchManually")

\* The tournament page's "delete this match": the match is taken out of the
\* list, the others keep their place and their matchNumber.
deleteMatch(k) ==
    /\ UNCHANGED <<impl, teams>>
    /\ k \in 1..Len(tournament.matches)
    /\ Saved([tournament EXCEPT !.matches =
                SubSeq(@, 1, k - 1) \o SubSeq(@, k + 1, Len(@))],
             "deleteMatch")

\* scoreA: benefitingTeamId === match.teamAId ? match.scoreA + 1 : match.scoreA,
\* scoreB: benefitingTeamId === match.teamBId ? match.scoreB + 1 : match.scoreB,
\* goals: [...match.goals, newGoal]
AppContext_GoalRecorded(match, scorerId, assistId, isOwnGoal, benefitingTeamId) ==
    [match EXCEPT
       !.scoreA = IF benefitingTeamId = match.teamAId THEN @ + 1 ELSE @,
       !.scoreB = IF benefitingTeamId = match.teamBId THEN @ + 1 ELSE @,
       !.goals = Append(@, [scorerId |-> scorerId, assistId |-> assistId,
                            isOwnGoal |-> isOwnGoal, teamId |-> benefitingTeamId])]

AppContext_recordGoal(matchId, scorerId, assistId, isOwnGoal) ==
    /\ impl = "local"
    /\ UNCHANGED <<impl, teams>>
    /\ CountGoals(tournament.matches) < MaxGoals
    /\ IF matchId > Len(tournament.matches) THEN Reply("recordGoal", 400)
       ELSE LET match == tournament.matches[matchId]
                benefitingTeamId ==
                    BenefitingTeam(match, FindTeamByMember(scorerId), isOwnGoal)
            IN Saved([tournament EXCEPT !.matches[matchId] =
                        AppContext_GoalRecorded(match, scorerId, assistId, isOwnGoal,
                                                benefitingTeamId)],
                     "recordGoal")

\* endMatch(tournamentId, matchId, penaltyScores?): the match the function
\* stores.  penaltyScores is the object {penaltyScoreA, penaltyScoreB}; both
\* Undefined stands for a call without the object, one Undefined for an
\* object without that key.
\*   let winnerId = null;
\*   if (scoreA > scoreB) winnerId = teamAId;
\*   else if (scoreB > scoreA) winnerId = teamBId;
\*   else if (penaltyScores && A !== B) winnerId = A > B ? teamAId : teamBId;
\*   { ...match, status: FINISHED, winnerId, ...penaltyScores }
AppContext_EndMatchOutcome(match, penaltyScoreA, penaltyScoreB) ==
    LET given == <<penaltyScoreA, penaltyScoreB>> # <<Undefined, Undefined>>
        winnerId ==
            IF match.scoreA > match.scoreB THEN match.teamAId
            ELSE IF match.scoreB > match.scoreA THEN match.teamBId
            ELSE IF given /\ penaltyScoreA # penaltyScoreB
            THEN IF /\ penaltyScoreA.type = "number"
                    /\ penaltyScoreB.type = "number"
                    /\ penaltyScoreA.val > penaltyScoreB.val
                 THEN match.teamAId ELSE match.teamBId
            ELSE NullId
    IN [match EXCEPT
          !.status = "Finished",
          !.winnerId = winnerId,
          !.penaltyScoreA = IF penaltyScoreA # Undefined THEN penaltyScoreA ELSE @,
          !.penaltyScoreB = IF penaltyScoreB # Undefined THEN penaltyScoreB ELSE @]

AppContext_endMatch(matchId, penaltyScoreA, penaltyScoreB) ==
    /\ impl = "local"
    /\ UNCHANGED <<impl, teams>>
    /\ IF matchId > Len(tournament.matches) THEN Reply("endMatch", 400)
       ELSE Saved([tournament EXCEPT !.matches[matchId] =
                     AppContext_EndMatchOutcome(@, penaltyScoreA, penaltyScoreB)],
                  "endMatch")

---------------------------------------------------------------------------
(* Invite codes.  A code is a sequence of characters; the stored codes are *)
(* upper case, as nanoid(n).toUpperCase() makes them.                      *)

\* String.prototype.toUpperCase over the characters that occur in the model.
UpperChar(c) == IF c = "a" THEN "A" ELSE IF c = "b" THEN "B" ELSE c

ToUpperCase(code) == [i \in 1..Len(code) |-> UpperChar(code[i])]

\* The inviteCode field of each team and of the tournament.
TeamInviteCode(teamId) ==
    IF teamId = "tA" THEN <<"A", "B", "1">>
    ELSE IF teamId = "tB" THEN <<"B", "A", "1">>
    ELSE IF teamId = "tC" THEN <<"A", "A", "2">>
    ELSE <<"B", "B", "2">>

TournamentInviteCode == <<"A", "B", "7">>

\* Codes a user may type: the code of tA as stored, in lower case, in mixed
\* case, and a code no team has; likewise for the tournament.
TeamCodeInputs ==
    {<<"A", "B", "1">>, <<"a", "b", "1">>, <<"A", "b", "1">>, <<"B", "B", "9">>}

TournamentCodeInputs == {<<"A", "B", "7">>, <<"a", "b", "7">>, <<"B", "B", "9">>}

\* Team.findOne({ inviteCode }): exact match.
RECURSIVE FindTeamByCodeFrom(_, _)
FindTeamByCodeFrom(i, code) ==
    IF i > Len(TeamOrder) THEN UndefId
    ELSE IF TeamInviteCode(TeamOrder[i]) = code THEN TeamOrder[i]
    ELSE FindTeamByCodeFrom(i + 1, code)

FindTeamByCode(code) == FindTeamByCodeFrom(1, code)

\* allTeams.find(t => t.inviteCode.toUpperCase() === code.toUpperCase())
RECURSIVE AppContext_FindTeamByCodeFrom(_, _)
AppContext_FindTeamByCodeFrom(i, code) ==
    IF i > Len(TeamOrder) THEN UndefId
    ELSE IF ToUpperCase(TeamInviteCode(TeamOrder[i])) = ToUpperCase(code) THEN TeamOrder[i]
    ELSE AppContext_FindTeamByCodeFrom(i + 1, code)

AppContext_FindTeamByCode(code) == AppContext_FindTeamByCodeFrom(1, code)

---------------------------------------------------------------------------
(* joinTournament and the team handlers of the backend *)

\* joinTournament without the tournament.teams.includes(team._id) check.
joinTournament_NoDuplicateCheck(caller, inviteCode, teamId) ==
    /\ impl = "backend"
    /\ UNCHANGED <<impl, teams>>
    /\ IF inviteCode # TournamentInviteCode THEN Reply("joinTournament", 404)
       ELSE IF teamId \notin TeamIds THEN Reply("joinTournament", 404)
       ELSE IF ~InSeq(caller, teams[teamId].adminIds) THEN Reply("joinTournament", 403)
       ELSE Saved([tournament EXCEPT !.teams = Append(@, teamId)], "joinTournament")

\* Tournament.findOne({ inviteCode }); Team.findById(teamId); the caller has
\* to be an admin of the team that is registered.
joinTournament(caller, inviteCode, teamId) ==
    /\ impl = "backend"
    /\ UNCHANGED <<impl, teams>>
    /\ IF inviteCode # TournamentInviteCode THEN Reply("joinTournament", 404)
       ELSE IF teamId \notin TeamIds THEN Reply("joinTournament", 404)
       ELSE IF ~InSeq(caller, teams[teamId].adminIds) THEN Reply("joinTournament", 403)
       ELSE IF InSeq(teamId, tournament.teams) THEN Reply("joinTournament", 400)
       ELSE Saved([tournament EXCEPT !.teams = Append(@, teamId)], "joinTournament")

\* array.pull(x) / array.filter(id => id !== x)
RECURSIVE Pull(_, _)
Pull(seq, x) ==
    IF seq = <<>> THEN <<>>
    ELSE (IF Head(seq) = x THEN <<>> ELSE <<Head(seq)>>) \o Pull(Tail(seq), x)

\* A team handler that answers without saving.
TeamReply(op, status) ==
    /\ res' = [op |-> op, status |-> status]
    /\ prior' = tournament
    /\ UNCHANGED <<teams, tournament, version, requests, client>>

\* await team.save() followed by the success response.
TeamSaved(teamId, team, op) ==
    /\ res' = [op |-> op, status |-> 200]
    /\ prior' = tournament
    /\ teams' = [teams EXCEPT ![teamId] = team]
    /\ client' = TeamMirrored(op, teamId, team)
    /\ UNCHANGED <<tournament, version, requests>>

\* joinTeam without the members.includes(req.user.id) check.
joinTeam_NoMemberCheck(caller, inviteCode) ==
    /\ impl = "backend"
    /\ UNCHANGED impl
    /\ LET teamId == FindTeamByCode(inviteCode)
       IN IF teamId = UndefId THEN TeamReply("joinTeam", 404)
          ELSE TeamSaved(teamId, [teams[teamId] EXCEPT !.members = Append(@, caller)],
                         "joinTeam")

joinTeam(caller, inviteCode) ==
    /\ impl = "backend"
    /\ UNCHANGED impl
    /\ LET teamId == FindTeamByCode(inviteCode)
       IN IF teamId = UndefId THEN TeamReply("joinTeam", 404)
          ELSE IF InSeq(caller, teams[teamId].members) THEN TeamReply("joinTeam", 400)
          ELSE TeamSaved(teamId, [teams[teamId] EXCEPT !.members = Append(@, caller)],
                         "joinTeam")

addMember(caller, teamId, memberId) ==
    /\ impl = "backend"
    /\ UNCHANGED impl
    /\ IF teamId \notin TeamIds THEN TeamReply("addMember", 404)
       ELSE IF ~InSeq(caller, teams[teamId].adminIds) THEN TeamReply("addMember", 403)
       ELSE IF memberId \notin Users THEN TeamReply("addMember", 404)
       ELSE IF InSeq(memberId, teams[teamId].members) THEN TeamReply("addMember", 400)
       ELSE TeamSaved(teamId, [teams[teamId] EXCEPT !.members = Append(@, memberId)],
                      "addMember")

\* members.pull, adminIds.pull, and the two roles set to null when they
\* referenced the removed member.
MemberRemoved_RolesKept(team, memberId) ==
    [team EXCEPT !.members = Pull(@, memberId), !.adminIds = Pull(@, memberId)]

MemberRemoved(team, memberId) ==
    [team EXCEPT
       !.members = Pull(@, memberId),
       !.adminIds = Pull(@, memberId),
       !.captainId = IF @ \notin {NullId, UndefId} /\ @ = memberId THEN NullId ELSE @,
       !.viceCaptainId = IF @ \notin {NullId, UndefId} /\ @ = memberId THEN NullId ELSE @]

\* removeMember pulling the user from members only.
removeMember_AdminKept(caller, teamId, memberId) ==
    /\ impl = "backend"
    /\ UNCHANGED impl
    /\ IF teamId \notin TeamIds THEN TeamReply("removeMember", 404)
       ELSE IF ~InSeq(caller, teams[teamId].adminIds) THEN TeamReply("removeMember", 403)
       ELSE IF memberId = caller THEN TeamReply("removeMember", 400)
       ELSE TeamSaved(teamId, [teams[teamId] EXCEPT !.members = Pull(@, memberId)],
                      "removeMember")

\* DELETE /api/teams/:id/members/:memberId
removeMember(caller, teamId, memberId) ==
    /\ impl = "backend"
    /\ UNCHANGED impl
    /\ IF teamId \notin TeamIds THEN TeamReply("removeMember", 404)
       ELSE IF ~InSeq(caller, teams[teamId].adminIds) THEN TeamReply("removeMember", 403)
       ELSE IF memberId = caller THEN TeamReply("removeMember", 400)
       ELSE TeamSaved(teamId, MemberRemoved(teams[teamId], memberId), "removeMember")

\* if (team.adminIds.includes(memberId)) pull else push
AdminToggled(team, memberId) ==
    IF InSeq(memberId, team.adminIds)
    THEN [team EXCEPT !.adminIds = Pull(@, memberId)]
    ELSE [team EXCEPT !.adminIds = Append(@, memberId)]

\* toggleAdmin without the "cannot change your own admin status" refusal.
toggleAdmin_SelfAllowed(caller, teamId, memberId) ==
    /\ impl = "backend"
    /\ UNCHANGED impl
    /\ IF teamId \notin TeamIds THEN TeamReply("toggleAdmin", 404)
       ELSE IF ~InSeq(caller, teams[teamId].adminIds) THEN TeamReply("toggleAdmin", 403)
       ELSE TeamSaved(teamId, AdminToggled(teams[teamId], memberId), "toggleAdmin")

toggleAdmin(caller, teamId, memberId) ==
    /\ impl = "backend"
    /\ UNCHANGED impl
    /\ IF teamId \notin TeamIds THEN TeamReply("toggleAdmin", 404)
       ELSE IF ~InSeq(caller, teams[teamId].adminIds) THEN TeamReply("toggleAdmin", 403)
       ELSE IF memberId = caller THEN TeamReply("toggleAdmin", 400)
       ELSE TeamSaved(teamId, AdminToggled(teams[teamId], memberId), "toggleAdmin")

setRole(caller, teamId, memberId, role) ==
    /\ impl = "backend"
    /\ UNCHANGED impl
    /\ IF teamId \notin TeamIds THEN TeamReply("setRole", 404)
       ELSE IF ~InSeq(caller, teams[teamId].adminIds) THEN TeamReply("setRole", 403)
       ELSE IF ~InSeq(memberId, teams[teamId].members) THEN TeamReply("setRole", 400)
       ELSE IF role = "captain"
            THEN TeamSaved(teamId, [teams[teamId] EXCEPT !.captainId = memberId], "setRole")
       ELSE IF role = "viceCaptain"
            THEN TeamSaved(teamId, [teams[teamId] EXCEPT !.viceCaptainId = memberId],
                           "setRole")
       ELSE TeamReply("setRole", 400)

---------------------------------------------------------------------------
(* The team operations over local storage (contexts/AppContext.tsx): no    *)
(* caller is checked; res.status is 200 when the operation stored a team   *)
(* and 400 when it returned or threw before.                               *)

AppContext_joinTeam(currentUser, code) ==
    /\ impl = "local"
    /\ UNCHANGED impl
    /\ LET teamId == AppContext_FindTeamByCode(code)
       IN IF teamId = UndefId THEN TeamReply("joinTeam", 400)
          ELSE IF InSeq(currentUser, teams[teamId].members) THEN TeamReply("joinTeam", 400)
          ELSE TeamSaved(teamId, [teams[teamId] EXCEPT !.members = Append(@, currentUser)],
                         "joinTeam")

AppContext_addMemberToTeam(teamId, memberId) ==
    /\ impl = "local"
    /\ UNCHANGED impl
    /\ IF teamId \notin TeamIds THEN TeamReply("addMember", 400)
       ELSE IF memberId \notin Users THEN TeamReply("addMember", 400)
       ELSE IF InSeq(memberId, teams[teamId].members) THEN TeamReply("addMember", 400)
       ELSE TeamSaved(teamId, [teams[teamId] EXCEPT !.members = Append(@, memberId)],
                      "addMember")

AppContext_removeMemberFromTeam(teamId, memberId) ==
    /\ impl = "local"
    /\ UNCHANGED impl
    /\ IF teamId \notin TeamIds THEN TeamReply("removeMember", 400)
       ELSE TeamSaved(teamId,
                      [teams[teamId] EXCEPT
                         !.members = Pull(@, memberId),
                         !.adminIds = Pull(@, memberId),
                         !.captainId = IF @ = memberId THEN UndefId ELSE @,
                         !.viceCaptainId = IF @ = memberId THEN UndefId ELSE @],
                      "removeMember")

AppContext_toggleTeamAdmin(teamId, memberId) ==
    /\ impl = "local"
    /\ UNCHANGED impl
    /\ IF teamId \notin TeamIds THEN TeamReply("toggleAdmin", 400)
       ELSE TeamSaved(teamId, AdminToggled(teams[teamId], memberId), "toggleAdmin")

\* { ...team, [`${role}Id`]: memberId }, role being 'captain' or 'viceCaptain'
AppContext_setTeamRole(teamId, memberId, role) ==
    /\ impl = "local"
    /\ UNCHANGED impl
    /\ IF teamId \notin TeamIds THEN TeamReply("setRole", 400)
       ELSE IF role = "captain"
            THEN TeamSaved(teamId, [teams[teamId] EXCEPT !.captainId = memberId], "setRole")
       ELSE TeamSaved(teamId, [teams[teamId] EXCEPT !.viceCaptainId = memberId], "setRole")

---------------------------------------------------------------------------
(* The team page, the one place the local team operations are called from. *)

\* const isAdmin = team?.adminIds.includes(currentUser?._id || '')
TeamPage_isAdmin(currentUser, teamId) ==
    teamId \in TeamIds /\ InSeq(currentUser, teams[teamId].adminIds)

\* The menu of a member row: {isAdmin && currentUser?._id !== member._id && ...}
TeamPage_MemberMenu(currentUser, teamId, memberId) ==
    /\ TeamPage_isAdmin(currentUser, teamId)
    /\ InSeq(memberId, teams[teamId].members)
    /\ currentUser # memberId

\* The "Add New Member" form of the admin panel; the id is typed freely.
TeamPage_handleAddMember(currentUser, teamId, memberIdToAdd) ==
    /\ TeamPage_isAdmin(currentUser, teamId)
    /\ AppContext_addMemberToTeam(teamId, memberIdToAdd)

TeamPage_handleRemoveMember(currentUser, teamId, memberId) ==
    /\ TeamPage_MemberMenu(currentUser, teamId, memberId)
    /\ AppContext_removeMemberFromTeam(teamId, memberId)

TeamPage_handleToggleAdmin(currentUser, teamId, memberId) ==
    /\ TeamPage_MemberMenu(currentUser, teamId, memberId)
    /\ AppContext_toggleTeamAdmin(teamId, memberId)

TeamPage_handleSetRole(currentUser, teamId, memberId, role) ==
    /\ TeamPage_MemberMenu(currentUser, teamId, memberId)
    /\ role \in {"captain", "viceCaptain"}
    /\ AppContext_setTeamRole(teamId, memberId, role)

---------------------------------------------------------------------------
(* Standings (the pages' points tables).  A table is computed from the     *)
(* match list and the team list of the tournament document.                *)

\* teams.forEach(t => { stats[t._id] = { p: 0, w: 0, d: 0, l: 0, pts: 0, gf: 0, ga: 0 } })
ZeroStats(teamList) ==
    [t \in {teamList[i] : i \in 1..Len(teamList)} |->
        [p |-> 0, w |-> 0, d |-> 0, l |-> 0, pts |-> 0, gf |-> 0, ga |-> 0]]

\* stats[teamId].field += n
Add(stats, teamId, field, n) == [stats EXCEPT ![teamId][field] = @ + n]

\* if (stats[teamId]) { stats[teamId].field += n }
AddIf(stats, teamId, field, n) ==
    IF teamId \in DOMAIN stats THEN Add(stats, teamId, field, n) ELSE stats

\* matches.filter(pred), pred given as the set of positions kept.
RECURSIVE FilterFrom(_, _, _)
FilterFrom(ms, k, keep) ==
    IF k > Len(ms) THEN <<>>
    ELSE (IF k \in keep THEN <<ms[k]>> ELSE <<>>) \o FilterFrom(ms, k + 1, keep)

IsFinished(ms) == {k \in 1..Len(ms) : ms[k].status = "Finished"}
IsLeague(ms) == {k \in 1..Len(ms) : ms[k].round \notin KnockoutRounds}

\* The forEach body of the tournament page's table: no guard on stats[...].
TableStep_DrawWorthThree(stats, m) ==
    LET a == m.teamAId
        b == m.teamBId
        s1 == Add(Add(stats, a, "p", 1), b, "p", 1)
        s2 == Add(Add(s1, a, "gf", m.scoreA), a, "ga", m.scoreB)
        s3 == Add(Add(s2, b, "gf", m.scoreB), b, "ga", m.scoreA)
    IN IF m.winnerId = a
       THEN Add(Add(Add(s3, a, "w", 1), a, "pts", 3), b, "l", 1)
       ELSE IF m.winnerId = b
       THEN Add(Add(Add(s3, b, "w", 1), b, "pts", 3), a, "l", 1)
       ELSE Add(Add(Add(Add(s3, a, "d", 1), a, "pts", 3), b, "d", 1), b, "pts", 3)

TableStep(stats, m) ==
    LET a == m.teamAId
        b == m.teamBId
        s1 == Add(Add(stats, a, "p", 1), b, "p", 1)
        s2 == Add(Add(s1, a, "gf", m.scoreA), a, "ga", m.scoreB)
        s3 == Add(Add(s2, b, "gf", m.scoreB), b, "ga", m.scoreA)
    IN IF m.winnerId = a
       THEN Add(Add(Add(s3, a, "w", 1), a, "pts", 3), b, "l", 1)
       ELSE IF m.winnerId = b
       THEN Add(Add(Add(s3, b, "w", 1), b, "pts", 3), a, "l", 1)
       ELSE Add(Add(Add(Add(s3, a, "d", 1), a, "pts", 1), b, "d", 1), b, "pts", 1)

\* The forEach body of calculatePointsTable: every update guarded by
\* if (stats[teamId]).
GuardedTableStep(stats, m) ==
    LET a == m.teamAId
        b == m.teamBId
        s1 == AddIf(AddIf(AddIf(stats, a, "p", 1), a, "gf", m.scoreA), a, "ga", m.scoreB)
        s2 == AddIf(AddIf(AddIf(s1, b, "p", 1), b, "gf", m.scoreB), b, "ga", m.scoreA)
    IN IF m.winnerId = a
       THEN AddIf(AddIf(AddIf(s2, a, "w", 1), a, "pts", 3), b, "l", 1)
       ELSE IF m.winnerId = b
       THEN AddIf(AddIf(AddIf(s2, b, "w", 1), b, "pts", 3), a, "l", 1)
       ELSE AddIf(AddIf(AddIf(AddIf(s2, a, "d", 1), a, "pts", 1), b, "d", 1), b, "pts", 1)

\* The forEach body of the older tournament page: the result is read off
\* the scores, not off winnerId.
ScoreTableStep(stats, m) ==
    LET a == m.teamAId
        b == m.teamBId
        s1 == Add(Add(stats, a, "p", 1), b, "p", 1)
        s2 == Add(Add(s1, a, "gf", m.scoreA), a, "ga", m.scoreB)
        s3 == Add(Add(s2, b, "gf", m.scoreB), b, "ga", m.scoreA)
    IN IF m.scoreA > m.scoreB
       THEN Add(Add(Add(s3, a, "w", 1), a, "pts", 3), b, "l", 1)
       ELSE IF m.scoreB > m.scoreA
       THEN Add(Add(Add(s3, b, "w", 1), b, "pts", 3), a, "l", 1)
       ELSE Add(Add(Add(Add(s3, a, "d", 1), a, "pts", 1), b, "d", 1), b, "pts", 1)

\* matches.forEach(step), for each of the three bodies.
RECURSIVE Fold(_, _), GuardedFold(_, _), ScoreFold(_, _)
Fold(stats, ms) ==
    IF ms = <<>> THEN stats ELSE Fold(TableStep(stats, Head(ms)), Tail(ms))
GuardedFold(stats, ms) ==
    IF ms = <<>> THEN stats ELSE GuardedFold(GuardedTableStep(stats, Head(ms)), Tail(ms))
ScoreFold(stats, ms) ==
    IF ms = <<>> THEN stats ELSE ScoreFold(ScoreTableStep(stats, Head(ms)), Tail(ms))

\* teams.map(t => ({ ...t, ...stats[t._id], gd: gf - ga }))
Rows(stats, teamList) ==
    [i \in 1..Len(teamList) |->
        LET st == stats[teamList[i]]
        IN [id |-> teamList[i], p |-> st.p, w |-> st.w, d |-> st.d, l |-> st.l,
            pts |-> st.pts, gf |-> st.gf, ga |-> st.ga, gd |-> st.gf - st.ga]]

\* (a, b) => b.pts !== a.pts ? b.pts - a.pts : b.gd - a.gd
Comparator_Ascending(a, b) == IF b.pts # a.pts THEN a.pts - b.pts ELSE a.gd - b.gd

Comparator(a, b) == IF b.pts # a.pts THEN b.pts - a.pts ELSE b.gd - a.gd

\* Array.prototype.sort is stable: a row is placed behind every row already
\* placed that the comparator does not order after it.
RECURSIVE InsertRow(_, _)
InsertRow(sorted, row) ==
    IF sorted = <<>> THEN <<row>>
    ELSE IF Comparator(Head(sorted), row) > 0 THEN <<row>> \o sorted
    ELSE <<Head(sorted)>> \o InsertRow(Tail(sorted), row)

RECURSIVE SortRows(_, _)
SortRows(sorted, rest) ==
    IF rest = <<>> THEN sorted ELSE SortRows(InsertRow(sorted, Head(rest)), Tail(rest))

\* The tournament page's standings tab.
PointsTableTab(matches, teamList) ==
    SortRows(<<>>,
             Rows(Fold(ZeroStats(teamList),
                       FilterFrom(matches, 1, IsFinished(matches) \cap IsLeague(matches))),
                  teamList))

\* calculatePointsTable(matches, teams) of the team page.
calculatePointsTable(matches, teamList) ==
    SortRows(<<>>,
             Rows(GuardedFold(ZeroStats(teamList),
                              FilterFrom(matches, 1, IsFinished(matches))),
                  teamList))

\* calculatePointsTable(tourn.matches.filter(m => !knockoutRounds.includes(m.round)), tourn.teams)
tournamentPositions(doc) ==
    calculatePointsTable(FilterFrom(doc.matches, 1, IsLeague(doc.matches)), doc.teams)

\* The standings tab of the older tournament page: every finished match.
TournamentPage_PointsTableTab(matches, teamList) ==
    SortRows(<<>>,
             Rows(ScoreFold(ZeroStats(teamList),
                            FilterFrom(matches, 1, IsFinished(matches))),
                  teamList))

---------------------------------------------------------------------------
(* Specification of the fixtures: teams enter the tournament, fixtures are *)
(* generated and regenerated, matches are added by hand, and the first     *)
(* match is played (goals, a card, a result) so that a regeneration has    *)
(* something to discard.  Either implementation serves the document.       *)

ManualRequests == {<<c, "tA", "tB", "Final">> : c \in Callers}
\* The first match is played by the admin: u1 scores, is booked, and the
\* match is finished.
PlayRequests == {<<"u1", 1, "u1">>}

NextFixtures ==
    \/ \E c \in Callers, t \in TeamInputs : addTeamToTournament(c, t)
    \/ \E c \in Callers : scheduleMatches(c)
    \/ \E r \in ManualRequests : addMatchManually(r[1], r[2], r[3], r[4])
    \/ \E r \in PlayRequests :
          updateMatchStatus(r[1], r[2], "Finished", Undefined, Undefined)
    \/ \E r \in PlayRequests : recordGoal(r[1], r[2], r[3], UndefId, FALSE)
    \/ \E r \in PlayRequests : recordCard(r[1], r[2], r[3], "Red")
    \/ \E t \in TeamInputs : AppContext_addTeamToTournament(t)
    \/ AppContext_scheduleMatches
    \/ \E r \in ManualRequests : AppContext_addMatchManually(r[2], r[3], r[4])
    \/ \E r \in PlayRequests : AppContext_recordGoal(r[2], r[3], UndefId, FALSE)

SpecFixtures == Init /\ [][NextFixtures]_vars

---------------------------------------------------------------------------
(* Specification of one match: the tournament holds tA and tB and one      *)
(* manually added match between them, and the backend serves status        *)
(* changes, goals and cards on it.                                         *)

MatchRounds == KnockoutRounds \cup {"League Stage"}

\* The requests served: every status and every penalty input by
\* the admin on the match, one request by a non-admin and one for a match
\* that does not exist.
StatusRequests ==
    {<<"u1", 1, s, Undefined, Undefined>> : s \in StatusInputs \ {"Finished"}}
    \cup {<<"u1", 1, "Finished", p[1], p[2]>> : p \in PenaltyInputs}
    \cup {<<"u2", 1, "Finished", Undefined, Undefined>>,
          <<"u1", 2, "Finished", Undefined, Undefined>>}

GoalRequests ==
    {<<"u1", 1, u, a, own>> : u \in UserInputs, a \in AssistInputs, own \in BOOLEAN}
    \cup {<<"u2", 1, "u1", UndefId, FALSE>>, <<"u1", 2, "u1", UndefId, FALSE>>}

InitMatch ==
    /\ impl = "backend"
    /\ teams = InitTeams
    /\ NoneInFlight
    /\ client = Detached
    /\ \E r \in MatchRounds :
          tournament = [createTournament("u1") EXCEPT
                          !.teams = <<"tA", "tB">>,
                          !.matches = <<MatchSchema(1, "tA", "tB", r)>>]
    /\ res = [op |-> "addMatchManually", status |-> 200]
    /\ prior = tournament

NextMatch ==
    \/ \E r \in StatusRequests : updateMatchStatus(r[1], r[2], r[3], r[4], r[5])
    \/ \E r \in GoalRequests : recordGoal(r[1], r[2], r[3], r[4], r[5])

Spec == InitMatch /\ [][NextMatch]_vars

---------------------------------------------------------------------------
(* Specification of the standings: three teams have entered, the league    *)
(* fixtures were generated and a Final between the first two teams was     *)
(* added by hand.  The admin records goals and finishes matches; the       *)
(* tables are read off the stored document.                                *)

StandingsOrders == {<<"tB", "tA", "tC">>, <<"tC", "tB", "tA">>}

StandingsStatusRequests ==
    {<<"u1", m, "Finished", Num(1), Num(0)>> : m \in 1..4}
    \cup {<<"u1", 1, "Live", Undefined, Undefined>>}

\* Goals are scored by the founders of the three teams, each in the matches
\* of the own team.
StandingsScorers == {"u1", "u2", "u3"}

InitStandings ==
    /\ impl = "backend"
    /\ teams = InitTeams
    /\ NoneInFlight
    /\ client = Detached
    /\ \E order \in StandingsOrders :
          /\ prior = ScheduledDoc([createTournament("u1") EXCEPT !.teams = order])
          /\ tournament =
                [prior EXCEPT !.matches =
                    Append(@, MatchSchema(MaxMatchNumber(prior.matches) + 1,
                                          order[1], order[2], "Final"))]
    /\ res = [op |-> "addMatchManually", status |-> 200]

NextStandings ==
    \/ \E r \in StandingsStatusRequests :
          updateMatchStatus(r[1], r[2], r[3], r[4], r[5])
    \/ \E m \in 1..Len(tournament.matches), u \in StandingsScorers :
          /\ PlaysIn(u, tournament.matches[m])
          /\ recordGoal("u1", m, u, UndefId, FALSE)

SpecStandings == InitStandings /\ [][NextStandings]_vars

---------------------------------------------------------------------------
(* Specification of manual fixtures: tA and tB are registered; fixtures    *)
(* are generated, matches are added by hand under two round labels and     *)
(* deleted again, on the backend and in the local implementation.          *)

ManualRounds == {"Final", "Semi-Final"}
ManualAddRequests == {<<c, "tA", "tB", rd>> : c \in Callers, rd \in ManualRounds}

InitManual ==
    /\ impl \in {"backend", "local"}
    /\ teams = InitTeams
    /\ NoneInFlight
    /\ client = Detached
    /\ tournament = [createTournament("u1") EXCEPT !.teams = <<"tA", "tB">>]
    /\ res = [op |-> "addTeamToTournament", status |-> 200]
    /\ prior = [createTournament("u1") EXCEPT !.teams = <<"tA">>]

NextManual ==
    \/ \E c \in Callers : scheduleMatches(c)
    \/ AppContext_scheduleMatches
    \/ \E r \in ManualAddRequests :
          /\ MaxMatchNumber(tournament.matches) < MaxNumber
          /\ addMatchManually(r[1], r[2], r[3], r[4])
    \/ \E r \in ManualAddRequests : AppContext_addMatchManually(r[2], r[3], r[4])
    \/ \E k \in 1..MaxMatches : deleteMatch(k)

SpecManual == InitManual /\ [][NextManual]_vars

---------------------------------------------------------------------------
(* Specification of the teams: the four teams exist as created, and users  *)
(* join team tA by code while callers add and remove its members, toggle   *)
(* its admins and set its roles, through either implementation.            *)

TeamCallers == {"u1", "u2"}
MemberInputs == {"u1", "u2", UnknownUser}
AddressedTeams == {"tA", UnknownTeam}
RoleInputs == {"captain", "viceCaptain", "coach"}

JoinTeamRequests == {<<c, code>> : c \in TeamCallers, code \in TeamCodeInputs}
MemberRequests == {<<c, t, m>> : c \in TeamCallers, t \in AddressedTeams, m \in MemberInputs}
RoleRequests ==
    {<<c, "tA", m, role>> : c \in TeamCallers, m \in MemberInputs, role \in RoleInputs}

InitTeamsSpec ==
    /\ impl \in {"backend", "local"}
    /\ teams = InitTeams
    /\ NoneInFlight
    /\ client = Detached
    /\ tournament = createTournament("u1")
    /\ res = [op |-> "createTeam", status |-> 201]
    /\ prior = tournament

NextTeams ==
    \/ \E r \in JoinTeamRequests : joinTeam(r[1], r[2])
    \/ \E r \in MemberRequests : addMember(r[1], r[2], r[3])
    \/ \E r \in MemberRequests : removeMember(r[1], r[2], r[3])
    \/ \E r \in MemberRequests : toggleAdmin(r[1], r[2], r[3])
    \/ \E r \in RoleRequests : setRole(r[1], r[2], r[3], r[4])
    \/ \E r \in JoinTeamRequests : AppContext_joinTeam(r[1], r[2])
    \/ \E r \in MemberRequests : TeamPage_handleAddMember(r[1], r[2], r[3])
    \/ \E r \in MemberRequests : TeamPage_handleRemoveMember(r[1], r[2], r[3])
    \/ \E r \in MemberRequests : TeamPage_handleToggleAdmin(r[1], r[2], r[3])
    \/ \E r \in RoleRequests : TeamPage_handleSetRole(r[1], r[2], r[3], r[4])

SpecTeams == InitTeamsSpec /\ [][NextTeams]_vars

---------------------------------------------------------------------------
(* Specification of the backend's mutating endpoints: u1 administers the   *)
(* tournament and team tA, u2 administers team tB.  Both send every        *)
(* request; the team requests address tA and its prospective member u2,    *)
(* the match requests address the first match, and a match is added by     *)
(* hand only to an empty list.                                             *)

EndpointCallers == {"u1", "u2"}
JoiningTeams == {"tA", "tB"}

\* The requests of caller c to the endpoints that test tournament.adminId.
TournamentAdminRequest(c) ==
    \/ addTeamToTournament(c, "tB")
    \/ scheduleMatches(c)
    \/ tournament.matches = <<>> /\ addMatchManually(c, "tA", "tB", "Final")
    \/ updateMatchDetails(c, 1, UndefId, UndefId, "2025-01-01", UndefId)
    \/ updateMatchStatus(c, 1, "Finished", Undefined, Undefined)
    \/ recordGoal(c, 1, "u1", UndefId, FALSE)
    \/ recordCard(c, 1, "u1", "Red")
    \/ setPlayerOfTheMatch(c, 1, "u1")

\* The requests of caller c to the endpoints that test team.adminIds of t.
TeamAdminRequest(c, t) ==
    \/ addMember(c, t, "u2")
    \/ removeMember(c, t, "u2")
    \/ toggleAdmin(c, t, "u2")
    \/ setRole(c, t, "u2", "captain")

InitEndpoints ==
    /\ impl = "backend"
    /\ teams = InitTeams
    /\ NoneInFlight
    /\ client = Detached
    /\ tournament = [createTournament("u1") EXCEPT !.teams = <<"tA">>]
    /\ res = [op |-> "addTeamToTournament", status |-> 200]
    /\ prior = createTournament("u1")

NextEndpoints ==
    \/ \E c \in EndpointCallers : TournamentAdminRequest(c)
    \/ \E c \in EndpointCallers : TeamAdminRequest(c, "tA")
    \/ \E c \in EndpointCallers, t \in JoiningTeams :
          joinTournament(c, TournamentInviteCode, t)
    \/ \E c \in EndpointCallers : joinTeam(c, TeamInviteCode("tA"))

SpecEndpoints == InitEndpoints /\ [][NextEndpoints]_vars

---------------------------------------------------------------------------
(* Specification of the API-backed client: u1, admin of team tA and of the *)
(* tournament, works through one of the two providers, which keeps its own *)
(* copies of the teams and of the tournament next to the backend's.        *)

\* The user u1 manages in tA, and the team u1 adds to the tournament.
ClientMembers == {"u2"}
ClientTeams == {"tB"}

\* TeamPage: useEffect(() => { getTeamById(teamId) ... }) under part_004,
\* the page's first visit putting the team in the cache.
TeamPage_load(teamId) ==
    /\ client.on /\ client.provider = "part_004"
    /\ client.teams[teamId] = Absent
    /\ client' = getTeamById(client, teamId, teams[teamId])
    /\ UNCHANGED <<impl, teams, tournament, res, prior, version, requests>>

\* TournamentPage: getTournamentById(tournamentId) under part_004.
TournamentPage_load ==
    /\ client.on /\ client.provider = "part_004"
    /\ client.tournament = Absent
    /\ client' = getTournamentById(client, tournament)
    /\ UNCHANGED <<impl, teams, tournament, res, prior, version, requests>>

InitClient ==
    /\ impl = "backend"
    /\ teams = InitTeams
    /\ NoneInFlight
    /\ tournament = createTournament("u1")
    /\ client \in {Attached_part_004, fetchAppData(teams, tournament)}
    /\ res = [op |-> "createTournament", status |-> 201]
    /\ prior = tournament

NextClient ==
    \/ TeamPage_load("tA")
    \/ TournamentPage_load
    \/ \E m \in ClientMembers : addMember("u1", "tA", m)
    \/ \E m \in ClientMembers : removeMember("u1", "tA", m)
    \/ \E m \in ClientMembers : toggleAdmin("u1", "tA", m)
    \/ \E m \in ClientMembers : setRole("u1", "tA", m, "captain")
    \/ \E t \in ClientTeams : addTeamToTournament("u1", t)
    \/ joinTournament("u1", TournamentInviteCode, "tA")
    \/ scheduleMatches("u1")
    \/ addMatchManually("u1", "tA", "tB", "Final")

SpecClient == InitClient /\ [][NextClient]_vars

---------------------------------------------------------------------------
(* Specification of the pairings: tA and tB have entered the tournament,   *)
(* tC has not.  The backend serves the admin's requests to add a match and *)
(* to change a match's teams with any team ids in the body; locally the    *)
(* admin creates matches through the tournament page's form.               *)

PairingTeams == {"tA", "tB", "tC"}

\* if (... && newMatchData.teamAId !== newMatchData.teamBId)
\*     await addMatchManually(tournamentId, newMatchData);
\* the two selects offer tournamentTeams.
TournamentPage_handleManualMatchCreate(teamAId, teamBId, round) ==
    /\ teamAId # teamBId
    /\ InSeq(teamAId, tournament.teams)
    /\ InSeq(teamBId, tournament.teams)
    /\ AppContext_addMatchManually(teamAId, teamBId, round)

InitPairings ==
    /\ impl \in {"backend", "local"}
    /\ teams = InitTeams
    /\ NoneInFlight
    /\ client = Detached
    /\ tournament = [createTournament("u1") EXCEPT !.teams = <<"tA", "tB">>]
    /\ res = [op |-> "addTeamToTournament", status |-> 200]
    /\ prior = [createTournament("u1") EXCEPT !.teams = <<"tA">>]

NextPairings ==
    \/ \E a \in PairingTeams, b \in PairingTeams :
          addMatchManually("u1", a, b, "League Stage")
    \/ \E k \in 1..MaxMatches, a \in PairingTeams :
          updateMatchDetails("u1", k, a, UndefId, UndefId, UndefId)
    \/ scheduleMatches("u1")
    \/ \E a \in PairingTeams, b \in PairingTeams :
          TournamentPage_handleManualMatchCreate(a, b, "League Stage")
    \/ AppContext_scheduleMatches

SpecPairings == InitPairings /\ [][NextPairings]_vars

---------------------------------------------------------------------------
(* Specification of ending a match: tA and tB play one match of any round, *)
(* goals are recorded for either side and the match is ended with any      *)
(* penalty input, by the backend or by the local implementation.           *)

EndMatchScorers == {"u1", "u2"}

InitEndMatch ==
    /\ impl \in {"backend", "local"}
    /\ teams = InitTeams
    /\ NoneInFlight
    /\ client = Detached
    /\ \E r \in MatchRounds :
          tournament = [createTournament("u1") EXCEPT
                          !.teams = <<"tA", "tB">>,
                          !.matches = IF impl = "backend"
                                      THEN <<MatchSchema(1, "tA", "tB", r)>>
                                      ELSE <<AppContext_newMatch(1, "tA", "tB", r)>>]
    /\ res = [op |-> "addMatchManually", status |-> 200]
    /\ prior = [createTournament("u1") EXCEPT !.teams = <<"tA", "tB">>]

NextEndMatch ==
    \/ \E u \in EndMatchScorers : recordGoal("u1", 1, u, UndefId, FALSE)
    \/ \E p \in PenaltyInputs : updateMatchStatus("u1", 1, "Finished", p[1], p[2])
    \/ \E u \in EndMatchScorers : AppContext_recordGoal(1, u, UndefId, FALSE)
    \/ \E p \in PenaltyInputs : AppContext_endMatch(1, p[1], p[2])

SpecEndMatch == InitEndMatch /\ [][NextEndMatch]_vars

---------------------------------------------------------------------------
(* Specification of goal recording: tB and tC play the one match of the    *)
(* tournament.  On the backend two recordGoal requests of the admin are in *)
(* flight at a time, their loads and saves interleaving freely; locally    *)
(* the admin records goals from the scoring page, which lists the players  *)
(* of the two teams.  u2, a player of tB, may also join tA.                *)

GoalScorers == {"u2", "u3"}

InitGoals ==
    /\ impl \in {"backend", "local"}
    /\ teams = InitTeams
    /\ NoneInFlight
    /\ client = Detached
    /\ prior = [createTournament("u1") EXCEPT !.teams = <<"tB", "tC">>]
    /\ tournament = IF impl = "backend" THEN ScheduledDoc(prior)
                    ELSE AppContext_ScheduledDoc(prior)
    /\ res = [op |-> "scheduleMatches", status |-> 200]

NextGoals ==
    \/ \E r \in RequestIds, u \in GoalScorers :
          recordGoal_load(r, "u1", 1, u, UndefId, FALSE)
    \/ \E r \in RequestIds : recordGoal_save(r)
    \/ \E r \in RequestIds : recordGoal_end(r)
    \/ joinTeam("u2", TeamInviteCode("tA"))
    \/ AppContext_joinTeam("u2", TeamInviteCode("tA"))
    \/ \E u \in GoalScorers :
          /\ PlaysIn(u, tournament.matches[1])
          /\ AppContext_recordGoal(1, u, UndefId, FALSE)

SpecGoals == InitGoals /\ [][NextGoals]_vars

---------------------------------------------------------------------------
(* Claims about finishing a match (checked under Spec) *)

\* The request r of StatusRequests asks the admin to finish an existing match.
FinishByAdmin(r) ==
    /\ r[3] = "Finished"
    /\ r[1] = tournament.adminId
    /\ r[2] <= Len(tournament.matches)

Tied(match) == match.scoreA = match.scoreB

\* Penalty scores as the specification wants them: two numbers, neither
\* negative, not equal.
ValidPenalties(pa, pb) ==
    /\ pa.type = "number" /\ pb.type = "number"
    /\ pa.val >= 0 /\ pb.val >= 0
    /\ pa.val # pb.val

\* C1: finishing a tied knockout match with missing, negative or equal
\* penalty scores is rejected, and the stored match stays as it was.
C1_InvalidPenaltiesRejected ==
    [][\A r \in StatusRequests :
          ( /\ FinishByAdmin(r)
            /\ Tied(tournament.matches[r[2]])
            /\ tournament.matches[r[2]].round \in KnockoutRounds
            /\ ~ValidPenalties(r[4], r[5])
            /\ updateMatchStatus(r[1], r[2], r[3], r[4], r[5]) )
          => /\ res'.status = 400
             /\ tournament'.matches[r[2]] = tournament.matches[r[2]]]_vars

\* C2: finishing a tied knockout match with two valid unequal penalty scores
\* sets status Finished, makes the team with the higher penalty score the
\* winner and stores both penalty scores exactly as supplied.
C2_PenaltiesDecideKnockoutDraw ==
    [][\A r \in StatusRequests :
          ( /\ FinishByAdmin(r)
            /\ Tied(tournament.matches[r[2]])
            /\ tournament.matches[r[2]].round \in KnockoutRounds
            /\ ValidPenalties(r[4], r[5])
            /\ updateMatchStatus(r[1], r[2], r[3], r[4], r[5]) )
          => LET old == tournament.matches[r[2]]
                 new == tournament'.matches[r[2]]
             IN /\ res'.status = 200
                /\ new.status = "Finished"
                /\ new.winnerId = (IF r[4].val > r[5].val THEN old.teamAId ELSE old.teamBId)
                /\ new.penaltyScoreA = r[4]
                /\ new.penaltyScoreB = r[5]]_vars

C2_Witness ==
    /\ res = [op |-> "updateMatchStatus", status |-> 200]
    /\ Tied(prior.matches[1]) /\ prior.matches[1].scoreA = 1
    /\ prior.matches[1].status = "Live"
    /\ tournament.matches[1].round = "Eliminator"
    /\ tournament.matches[1].status = "Finished"
    /\ tournament.matches[1].penaltyScoreA = Num(0)
    /\ tournament.matches[1].penaltyScoreB = Num(1)
    /\ tournament.matches[1].winnerId = "tB"

\* C3: finishing a tied match whose round is not a knockout round is a draw:
\* winnerId is null and no penalty score is set on the match, whatever
\* penalty values the request carried.
C3_LeagueDrawHasNoWinner ==
    [][\A m \in 1..Len(tournament.matches) :
          (\E r \in StatusRequests :
              /\ r[2] = m
              /\ FinishByAdmin(r)
              /\ Tied(tournament.matches[m])
              /\ tournament.matches[m].round \notin KnockoutRounds
              /\ updateMatchStatus(r[1], r[2], r[3], r[4], r[5]))
          => LET new == tournament'.matches[m]
             IN /\ res'.status = 200
                /\ new.status = "Finished"
                /\ new.winnerId = NullId
                /\ new.penaltyScoreA = Undefined
                /\ new.penaltyScoreB = Undefined]_vars

C3_Witness ==
    /\ res = [op |-> "updateMatchStatus", status |-> 200]
    /\ Tied(prior.matches[1]) /\ prior.matches[1].scoreA = 1
    /\ prior.matches[1].status = "Live"
    /\ tournament.matches[1].round = "League Stage"
    /\ tournament.matches[1].status = "Finished"
    /\ tournament.matches[1].winnerId = NullId
    /\ tournament.matches[1].penaltyScoreA = Undefined

\* C4: finishing a match whose scores differ makes the higher-scoring team
\* the winner for every round label, whatever the request says about
\* penalties (none are needed, none are stored).
C4_HigherScoreWins ==
    [][\A m \in 1..Len(tournament.matches) :
          (\E r \in StatusRequests :
              /\ r[2] = m
              /\ FinishByAdmin(r)
              /\ ~Tied(tournament.matches[m])
              /\ updateMatchStatus(r[1], r[2], r[3], r[4], r[5]))
          => LET old == tournament.matches[m]
                 new == tournament'.matches[m]
             IN /\ res'.status = 200
                /\ new.status = "Finished"
                /\ new.winnerId = (IF old.scoreA > old.scoreB THEN old.teamAId
                                   ELSE old.teamBId)
                /\ new.penaltyScoreA = old.penaltyScoreA
                /\ new.penaltyScoreB = old.penaltyScoreB]_vars

C4_Witness ==
    /\ res = [op |-> "updateMatchStatus", status |-> 200]
    /\ prior.matches[1].status = "Live"
    /\ prior.matches[1].scoreA = 0 /\ prior.matches[1].scoreB = 2
    /\ tournament.matches[1].round = "Semi-Final"
    /\ tournament.matches[1].status = "Finished"
    /\ tournament.matches[1].winnerId = "tB"
    /\ tournament.matches[1].penaltyScoreA = Undefined

---------------------------------------------------------------------------
(* Claims about fixture generation (checked under SpecFixtures) *)

ScheduleSucceeded == res = [op |-> "scheduleMatches", status |-> 200]

\* Position of the pair (i, j), i < j, in the enumeration
\* (1,2), (1,3), ..., (1,n), (2,3), ..., (n-1,n).
PairIndex(n, i, j) == (i - 1) * n - (i * (i - 1)) \div 2 + (j - i)

\* C5: after scheduleMatches on N >= 2 teams the list holds exactly
\* N*(N-1)/2 matches, the match at position k carries matchNumber k, and the
\* pair (teams[i], teams[j]), i < j, is the match whose number is the pair's
\* position in the double-loop enumeration.
C5_RoundRobinFixtures ==
    (ScheduleSucceeded /\ Len(tournament.teams) >= 2) =>
       LET n == Len(tournament.teams)
           ms == tournament.matches
       IN /\ Len(ms) = (n * (n - 1)) \div 2
          /\ \A k \in 1..Len(ms) : ms[k].matchNumber = k
          /\ \A i \in 1..n, j \in 1..n :
                i < j => /\ PairIndex(n, i, j) \in 1..Len(ms)
                         /\ ms[PairIndex(n, i, j)].teamAId = tournament.teams[i]
                         /\ ms[PairIndex(n, i, j)].teamBId = tournament.teams[j]

C5_Witness ==
    /\ ScheduleSucceeded
    /\ tournament.teams = <<"tC", "tA", "tD", "tB">>
    /\ Len(tournament.matches) = 6
    /\ tournament.matches[4].matchNumber = 4
    /\ tournament.matches[4].teamAId = "tA"
    /\ tournament.matches[4].teamBId = "tD"

\* C6: after scheduleMatches succeeds on a tournament that already had
\* matches, the list holds only the freshly generated matches (as many as
\* there are pairs of teams), each in round "League Stage", Scheduled, 0-0,
\* without goals, cards, winner or penalty scores, and isSchedulingDone is
\* true.
C6_RescheduleDiscardsPriorMatches ==
    (ScheduleSucceeded /\ prior.matches # <<>>) =>
       LET n == Len(tournament.teams)
           ms == tournament.matches
       IN /\ tournament.isSchedulingDone
          /\ Len(ms) = (n * (n - 1)) \div 2
          /\ \A k \in 1..Len(ms) :
                /\ ms[k].round = "League Stage"
                /\ ms[k].status = "Scheduled"
                /\ ms[k].scoreA = 0 /\ ms[k].scoreB = 0
                /\ ms[k].goals = <<>> /\ ms[k].cards = <<>>
                /\ ms[k].winnerId \notin TeamIds
                /\ ms[k].penaltyScoreA = Undefined
                /\ ms[k].penaltyScoreB = Undefined

C6_Witness ==
    /\ impl = "backend"
    /\ ScheduleSucceeded
    /\ Len(prior.matches) = 2
    /\ prior.matches[1].status = "Finished"
    /\ prior.matches[1].winnerId = "tA"
    /\ prior.matches[1].goals # <<>>
    /\ prior.matches[1].cards # <<>>
    /\ prior.matches[2].round = "Final"
    /\ Len(tournament.matches) = 3
    /\ tournament.matches[1].status = "Scheduled"

\* C7: scheduleMatches on a tournament with fewer than two teams is
\* rejected and changes neither the match list nor isSchedulingDone, in the
\* backend handler and in the local-storage implementation alike.
C7_TooFewTeamsRejected ==
    (res.op = "scheduleMatches" /\ Len(prior.teams) < 2) =>
       /\ res.status # 200
       /\ tournament.matches = prior.matches
       /\ tournament.isSchedulingDone = prior.isSchedulingDone

---------------------------------------------------------------------------
(* Claims about goals and cards *)

\* The team of the match that is not the given one.
OpposingTeam(match, teamId) ==
    IF teamId = match.teamAId THEN match.teamBId ELSE match.teamAId

\* C8 (checked under Spec): an accepted recordGoal adds exactly one to the
\* score of the benefiting team and leaves the other score alone, the
\* benefiting team being the scorer's own team, or for an own goal the
\* opposing team of the match; the appended goal's teamId is that team.
C8_GoalCreditsBenefitingTeam ==
    [][\A r \in GoalRequests :
          ( /\ r[1] = tournament.adminId
            /\ r[2] <= Len(tournament.matches)
            /\ res'.status = 200
            /\ recordGoal(r[1], r[2], r[3], r[4], r[5]) )
          => LET old == tournament.matches[r[2]]
                 new == tournament'.matches[r[2]]
                 own == FindTeamByMember(r[3])
                 benefiting == IF r[5] THEN OpposingTeam(old, own) ELSE own
             IN /\ new.scoreA = old.scoreA + (IF benefiting = old.teamAId THEN 1 ELSE 0)
                /\ new.scoreB = old.scoreB + (IF benefiting = old.teamBId THEN 1 ELSE 0)
                /\ new.scoreA + new.scoreB = old.scoreA + old.scoreB + 1
                /\ Len(new.goals) = Len(old.goals) + 1
                /\ Last(new.goals).teamId = benefiting]_vars

\* C9 (checked under SpecFixtures): the backend never accepts a goal or a
\* card for a player who is a member of neither team of the match: whenever
\* recordGoal or recordCard has just appended an event to a match, the
\* event's player belongs to one of the two teams playing it.
C9_OutsidersRejected ==
    (impl = "backend" /\ res.op \in {"recordGoal", "recordCard"}) =>
       \A m \in 1..Len(tournament.matches) :
          LET old == prior.matches[m]
              new == tournament.matches[m]
          IN /\ Len(new.goals) > Len(old.goals)
                  => PlaysIn(Last(new.goals).scorerId, new)
             /\ Len(new.cards) > Len(old.cards)
                  => PlaysIn(Last(new.cards).playerId, new)

\* C10 (checked under SpecFixtures): recordGoal and recordCard never touch
\* a Finished match: its goals, cards and scores are after the request what
\* they were before it.
C10_NoEventsOnFinishedMatch ==
    res.op \in {"recordGoal", "recordCard"} =>
       \A m \in 1..Len(tournament.matches) :
          prior.matches[m].status = "Finished" =>
             /\ tournament.matches[m].goals = prior.matches[m].goals
             /\ tournament.matches[m].cards = prior.matches[m].cards
             /\ tournament.matches[m].scoreA = prior.matches[m].scoreA
             /\ tournament.matches[m].scoreB = prior.matches[m].scoreB

---------------------------------------------------------------------------
(* Claims about the status of a match *)

\* Position of a status in the progression Scheduled -> Live -> Finished.
StatusRank(status) ==
    IF status = "Scheduled" THEN 0 ELSE IF status = "Live" THEN 1 ELSE 2

\* C11 (checked under Spec): the status of a stored match only advances
\* along Scheduled -> Live -> Finished: no request leaves a match with a
\* status earlier in the progression than the one it had before.
C11_StatusNeverGoesBack ==
    \A m \in 1..Len(tournament.matches) :
       m <= Len(prior.matches) =>
          StatusRank(tournament.matches[m].status)
             >= StatusRank(prior.matches[m].status)

---------------------------------------------------------------------------
(* Claims about the standings (checked under SpecStandings) *)

Plays(teamId, m) == teamId = m.teamAId \/ teamId = m.teamBId

\* Number of matches among the positions K that the team won, drew, lost.
Won(teamId, ms, K) ==
    Cardinality({k \in K : Plays(teamId, ms[k]) /\ ms[k].winnerId = teamId})
Drawn(teamId, ms, K) ==
    Cardinality({k \in K : Plays(teamId, ms[k]) /\ ms[k].winnerId = NullId})
Lost(teamId, ms, K) ==
    Cardinality({k \in K : Plays(teamId, ms[k])
                           /\ ms[k].winnerId \in {ms[k].teamAId, ms[k].teamBId} \ {teamId}})

\* Goals scored by (for = TRUE) or against the team in the matches at K.
RECURSIVE GoalsSum(_, _, _, _, _)
GoalsSum(teamId, ms, K, k, for) ==
    IF k > Len(ms) THEN 0
    ELSE GoalsSum(teamId, ms, K, k + 1, for)
         + (IF k \notin K THEN 0
            ELSE IF teamId = ms[k].teamAId
                 THEN (IF for THEN ms[k].scoreA ELSE ms[k].scoreB)
            ELSE IF teamId = ms[k].teamBId
                 THEN (IF for THEN ms[k].scoreB ELSE ms[k].scoreA)
            ELSE 0)

\* Every row of the table is the 3-1-0 account of the matches at K.
RowsAccountFor(table, ms, K) ==
    \A i \in 1..Len(table) :
       LET r == table[i]
       IN /\ r.w = Won(r.id, ms, K)
          /\ r.d = Drawn(r.id, ms, K)
          /\ r.l = Lost(r.id, ms, K)
          /\ r.pts = 3 * r.w + r.d
          /\ r.p = r.w + r.d + r.l
          /\ r.gf = GoalsSum(r.id, ms, K, 1, TRUE)
          /\ r.ga = GoalsSum(r.id, ms, K, 1, FALSE)
          /\ r.gd = r.gf - r.ga

\* C12: the standings fold only Finished matches; in every row a match won
\* (winnerId is the team) is worth 3 points, a match drawn (winnerId null)
\* 1 point and a match lost none, so points = 3*won + drawn,
\* played = won + drawn + lost and goalDifference = goalsFor - goalsAgainst.
\* Stated for the tournament page's table (finished league matches) and for
\* calculatePointsTable (all finished matches it is given).
C12_ThreeOneZeroOverFinishedMatches ==
    LET ms == tournament.matches
    IN /\ RowsAccountFor(PointsTableTab(ms, tournament.teams), ms,
                         IsFinished(ms) \cap IsLeague(ms))
       /\ RowsAccountFor(calculatePointsTable(ms, tournament.teams), ms,
                         IsFinished(ms))

C12_Witness ==
    LET ms == tournament.matches
        table == PointsTableTab(ms, tournament.teams)
    IN /\ \E i, j, k \in 1..Len(table) :
             /\ table[i].w = 1 /\ table[i].d = 1 /\ table[i].pts = 4
             /\ table[j].l = 1 /\ table[j].gd = -1
             /\ table[k].d = 1 /\ table[k].pts = 1
       /\ \E m \in 1..Len(ms) :
             ms[m].status # "Finished" /\ ms[m].scoreA + ms[m].scoreB > 0

TeamIndex(teamId, teamList) == CHOOSE i \in 1..Len(teamList) : teamList[i] = teamId

\* The table lists every team once, by descending points, then descending
\* goal difference, then position in the team list.
Ordered(table, teamList) ==
    /\ Len(table) = Len(teamList)
    /\ {table[i].id : i \in 1..Len(table)} = {teamList[i] : i \in 1..Len(teamList)}
    /\ \A i, j \in 1..Len(table) :
          i < j =>
             \/ table[i].pts > table[j].pts
             \/ table[i].pts = table[j].pts /\ table[i].gd > table[j].gd
             \/ /\ table[i].pts = table[j].pts
                /\ table[i].gd = table[j].gd
                /\ TeamIndex(table[i].id, teamList) < TeamIndex(table[j].id, teamList)

\* C13: the rows are ordered by descending points, rows with equal points
\* by descending goal difference, and rows equal in both keep the relative
\* order of the input team list.
C13_SortedByPointsThenGoalDifference ==
    /\ Ordered(PointsTableTab(tournament.matches, tournament.teams), tournament.teams)
    /\ Ordered(calculatePointsTable(tournament.matches, tournament.teams), tournament.teams)

\* The last team of the list leads with a win; the two rows level on no
\* points stand against their list order because of goal difference.
C13_Witness ==
    LET table == PointsTableTab(tournament.matches, tournament.teams)
    IN /\ table[1].pts = 3
       /\ table[2].pts = 0 /\ table[3].pts = 0
       /\ table[2].gd > table[3].gd
       /\ TeamIndex(table[2].id, tournament.teams) > TeamIndex(table[3].id, tournament.teams)
       /\ table[1].id = tournament.teams[3]

LeagueMatches(doc) == FilterFrom(doc.matches, 1, IsLeague(doc.matches))

---------------------------------------------------------------------------
(* Claims about teams (checked under SpecTeams) *)

NoDuplicates(seq) == \A i, j \in 1..Len(seq) : seq[i] = seq[j] => i = j

Unset(id) == id \in {NullId, UndefId}

\* C15: a user who is already a member of a team and joins it again by its
\* invite code gets an error and the team stays as it was; and in every
\* reachable state no user id occurs twice in a team's members.
C15_NoDoubleMembership ==
    /\ [](\A t \in TeamIds : NoDuplicates(teams[t].members))
    /\ [][\A r \in JoinTeamRequests :
             ( /\ \E t \in TeamIds : /\ r[2] = TeamInviteCode(t)
                                     /\ InSeq(r[1], teams[t].members)
               /\ (joinTeam(r[1], r[2]) \/ AppContext_joinTeam(r[1], r[2])) )
             => res'.status = 400 /\ teams' = teams]_vars

\* u2, who joined or was added before, is in tA and a join has just been
\* refused by the backend as a repeated one.
C15_Witness ==
    /\ impl = "backend"
    /\ res = [op |-> "joinTeam", status |-> 400]
    /\ teams["tA"].members = <<"u1", "u2">>

\* C18: in every reachable team state captainId and viceCaptainId are each
\* unset or the id of a current member.
C18_RolesHeldByMembers ==
    \A t \in TeamIds :
       /\ Unset(teams[t].captainId) \/ InSeq(teams[t].captainId, teams[t].members)
       /\ Unset(teams[t].viceCaptainId)
             \/ InSeq(teams[t].viceCaptainId, teams[t].members)

\* The captain was removed from tA and the role cleared with it; the vice
\* captain is still a member.
C18_Witness ==
    /\ impl = "backend"
    /\ res = [op |-> "removeMember", status |-> 200]
    /\ teams["tA"].captainId = NullId
    /\ teams["tA"].viceCaptainId \in Users
    /\ Len(teams["tA"].members) = 1

\* C19: in every reachable team state the adminIds of the team are not
\* empty.
C19_AdminIdsNeverEmpty == \A t \in TeamIds : teams[t].adminIds # <<>>

\* The creator of tA promoted u2 and was then demoted by u2, who is now the
\* only admin.
C19_Witness ==
    /\ res = [op |-> "toggleAdmin", status |-> 200]
    /\ teams["tA"].adminIds = <<"u2">>

\* C20: joining a team by invite code is case-insensitive: a code that
\* equals the stored code of tA up to letter case, sent by a user who is not
\* yet a member, makes that user a member of tA.
C20_InviteCodeIgnoresCase ==
    [][\A r \in JoinTeamRequests :
          ( /\ ToUpperCase(r[2]) = ToUpperCase(TeamInviteCode("tA"))
            /\ ~InSeq(r[1], teams["tA"].members)
            /\ (joinTeam(r[1], r[2]) \/ AppContext_joinTeam(r[1], r[2])) )
          => /\ res'.status = 200
             /\ teams'["tA"].members = Append(teams["tA"].members, r[1])]_vars

---------------------------------------------------------------------------
(* Claims about manual fixtures (checked under SpecManual) *)

\* The largest matchNumber of the list, 0 when the list is empty.
HighestNumber(ms) ==
    IF ms = <<>> THEN 0
    ELSE CHOOSE n \in {ms[k].matchNumber : k \in 1..Len(ms)} :
            \A k \in 1..Len(ms) : ms[k].matchNumber <= n

\* C17: a successful addMatchManually appends exactly one match, carrying
\* the round label of the request and matchNumber = (largest matchNumber of
\* the existing matches, or 0) + 1, and leaves every existing match as it was.
C17_ManualMatchAppended ==
    [][\A r \in ManualAddRequests :
          ( /\ \/ addMatchManually(r[1], r[2], r[3], r[4])
               \/ AppContext_addMatchManually(r[2], r[3], r[4])
            /\ res'.status = 200 )
          => LET old == tournament.matches
                 new == tournament'.matches
             IN /\ Len(new) = Len(old) + 1
                /\ \A k \in 1..Len(old) : new[k] = old[k]
                /\ Last(new).round = r[4]
                /\ Last(new).matchNumber = HighestNumber(old) + 1]_vars

---------------------------------------------------------------------------
(* Claims about authorisation (checked under SpecEndpoints) *)

\* The request was answered 403 and nothing stored has changed.
Forbidden == res'.status = 403 /\ tournament' = tournament /\ teams' = teams

\* C16 (as stated): every mutating team or tournament endpoint, the two join
\* endpoints included, answers 403 and changes no stored state when the
\* caller is not an admin of the addressed team or tournament.
C16_EveryEndpointNeedsAdmin ==
    [][\A c \in EndpointCallers :
          /\ ( /\ c # tournament.adminId
               /\ \/ TournamentAdminRequest(c)
                  \/ \E t \in JoiningTeams : joinTournament(c, TournamentInviteCode, t) )
             => Forbidden
          /\ ( /\ ~InSeq(c, teams["tA"].adminIds)
               /\ \/ TeamAdminRequest(c, "tA")
                  \/ joinTeam(c, TeamInviteCode("tA")) )
             => Forbidden]_vars

\* C16 (amended): every mutating endpoint that addresses a tournament or a
\* team by id answers 403 and changes no stored state when the caller is not
\* an admin of it; joinTournament does so when the caller is not an admin of
\* the team it registers.  joinTeam asks for no admin right.
C16_AdminOnlyEndpoints ==
    [][\A c \in EndpointCallers :
          /\ (c # tournament.adminId /\ TournamentAdminRequest(c)) => Forbidden
          /\ (~InSeq(c, teams["tA"].adminIds) /\ TeamAdminRequest(c, "tA")) => Forbidden
          /\ \A t \in JoiningTeams :
                ( /\ ~InSeq(c, teams[t].adminIds)
                  /\ joinTournament(c, TournamentInviteCode, t) ) => Forbidden]_vars

\* u2, who administers neither the tournament nor tA, has been refused on a
\* scheduled tournament that tB had joined, and nothing was changed.
C16_Witness ==
    /\ res.status = 403
    /\ tournament = prior
    /\ tournament.matches # <<>>
    /\ InSeq("tB", tournament.teams)
    /\ InSeq("u2", teams["tA"].members)
    /\ ~InSeq("u2", teams["tA"].adminIds)

---------------------------------------------------------------------------
(* Claims about registering teams (checked under SpecEndpoints) *)

\* C21: joinTournament and addTeamToTournament add a team only if it is not
\* yet in the tournament, joinTournament only for a caller who is an admin
\* of that team; a refused attempt leaves tournament.teams as it was; and in
\* every reachable state tournament.teams holds no team id twice.
C21_TeamsRegisteredOnce ==
    /\ [](NoDuplicates(tournament.teams))
    /\ [][\A c \in EndpointCallers, t \in JoiningTeams :
             ( \/ joinTournament(c, TournamentInviteCode, t)
               \/ addTeamToTournament(c, t) )
             => IF res'.status = 200
                THEN /\ ~InSeq(t, tournament.teams)
                     /\ tournament'.teams = Append(tournament.teams, t)
                     /\ res'.op = "joinTournament" => InSeq(c, teams[t].adminIds)
                ELSE tournament'.teams = tournament.teams]_vars

\* tB has joined the tournament and a second joinTournament was refused as a
\* duplicate.
C21_Witness ==
    /\ res = [op |-> "joinTournament", status |-> 400]
    /\ tournament.teams = <<"tA", "tB">>

---------------------------------------------------------------------------
(* Claims about concurrent goal recording (checked under SpecGoals) *)

\* Both requests loaded the same version of the document and both have
\* saved and answered: the interleaving load, load, save, save.
LoadLoadSaveSave ==
    /\ \A r \in RequestIds : requests[r].pc = "done"
    /\ requests[1].v = requests[2].v

C23_ScoreMatchesGoals ==
    \A m \in 1..Len(tournament.matches) :
       tournament.matches[m].scoreA + tournament.matches[m].scoreB
          = Len(tournament.matches[m].goals)

---------------------------------------------------------------------------
\* C24: after any successful mutating action of the client the client's
\* copy of the team or tournament it changed equals the document the
\* backend stores.
C24_ClientCopyFollowsBackend ==
    [][(client.on /\ res'.status = 200)
         => /\ \A t \in TeamIds :
                 (teams'[t] # teams[t] /\ client'.teams[t] # Absent)
                    => client'.teams[t] = teams'[t]
            /\ (tournament' # tournament /\ client'.tournament # Absent)
                    => client'.tournament = tournament']_vars

---------------------------------------------------------------------------
\* Every admin of the team is one of its members.
AdminsAreMembers(team) ==
    \A k \in 1..Len(team.adminIds) : InSeq(team.adminIds[k], team.members)

\* C25: adminIds is not kept a subset of members.  The state in which a
\* team has an admin who is not a member is C25_Witness; the step that
\* first puts a team into such a state is always an accepted toggleAdmin
\* request (removing a member pulls the user from adminIds as well).
C25_OnlyToggleAdminBreaksSubset ==
    [][\A t \in TeamIds :
          (AdminsAreMembers(teams[t]) /\ ~AdminsAreMembers(teams'[t]))
             => res' = [op |-> "toggleAdmin", status |-> 200]]_vars

\* A team reached through the team operations has an admin outside its
\* members.
C25_Witness ==
    \E t \in TeamIds : ~AdminsAreMembers(teams[t])

---------------------------------------------------------------------------
\* The winner the stored scores call for: the team with more goals; on
\* level scores nobody outside the knockout rounds, and in a knockout round
\* the team with the higher stored penalty score.
WinnerByScores(m) ==
    IF m.scoreA > m.scoreB THEN m.teamAId
    ELSE IF m.scoreB > m.scoreA THEN m.teamBId
    ELSE IF m.round \notin KnockoutRounds THEN NullId
    ELSE IF m.penaltyScoreA.type = "number" /\ m.penaltyScoreB.type = "number"
            /\ m.penaltyScoreA.val > m.penaltyScoreB.val THEN m.teamAId
    ELSE IF m.penaltyScoreA.type = "number" /\ m.penaltyScoreB.type = "number"
            /\ m.penaltyScoreB.val > m.penaltyScoreA.val THEN m.teamBId
    ELSE UnknownTeam

\* C26: in every reachable state every Finished match has the winnerId its
\* stored scores call for.
C26_WinnerMatchesScores ==
    \A k \in 1..Len(tournament.matches) :
       tournament.matches[k].status = "Finished"
          => tournament.matches[k].winnerId = WinnerByScores(tournament.matches[k])

---------------------------------------------------------------------------
\* C27: in every reachable state each match is between two different teams,
\* both of them entered in the tournament.
C27_MatchesPairEnteredTeams ==
    \A k \in 1..Len(tournament.matches) :
       LET m == tournament.matches[k]
       IN /\ m.teamAId # m.teamBId
          /\ InSeq(m.teamAId, tournament.teams)
          /\ InSeq(m.teamBId, tournament.teams)

---------------------------------------------------------------------------
\* C28: after any sequence of scheduleMatches and addMatchManually calls,
\* on the backend and locally, no two matches of the tournament carry the
\* same matchNumber.
C28_MatchNumbersDistinct ==
    \A i \in 1..Len(tournament.matches), j \in 1..Len(tournament.matches) :
       i # j => tournament.matches[i].matchNumber # tournament.matches[j].matchNumber

\* A match was added by hand to generated fixtures.
C28_Witness ==
    /\ res = [op |-> "addMatchManually", status |-> 200]
    /\ tournament.isSchedulingDone
    /\ Len(tournament.matches) >= 2
    /\ Len(tournament.matches) = Len(prior.matches) + 1

---------------------------------------------------------------------------
\* C29: for every score, round and penalty input, ending a match through
\* AppContext.endMatch and through the backend's updateMatchStatus with
\* status Finished come to the same outcome: both accept or both refuse,
\* and an accepted request stores the same status, winnerId and penalty
\* scores.
C29_EndMatchAgreesWithBackend ==
    [][\A p \in PenaltyInputs :
          LET m == tournament.matches[1]
              backend == FinishOutcome([m EXCEPT !.status = "Finished"], p[1], p[2])
              local == AppContext_EndMatchOutcome(m, p[1], p[2])
          IN /\ AppContext_endMatch(1, p[1], p[2])
                  => /\ ~backend.rejected
                     /\ tournament'.matches[1] = backend.match
             /\ updateMatchStatus("u1", 1, "Finished", p[1], p[2])
                  => /\ res'.status = 200
                     /\ tournament'.matches[1] = local]_vars

---------------------------------------------------------------------------
\* C30: over the Finished league-stage matches of every reachable state the
\* tables that read the result off winnerId (the tournament page's
\* PointsTableTab, the team page's calculatePointsTable) and the table that
\* compares scoreA with scoreB have the same rows in the same order.
C30_TablesAgree ==
    LET league == FilterFrom(tournament.matches, 1, IsLeague(tournament.matches))
        byScores == TournamentPage_PointsTableTab(league, tournament.teams)
    IN /\ PointsTableTab(tournament.matches, tournament.teams) = byScores
       /\ tournamentPositions(tournament) = byScores

====
